---- MODULE Spec2Model ----
(***************************************************************************)
(* Verification model of the gon-cloud-platform control plane: the VPC    *)
(* service (vpcService), its repository (vpcRepository), the Open vSwitch  *)
(* manager (ovsManager), the token handlers (AuthHandler), the schema      *)
(* migrations (RunMigrations), and the address allocator and the security  *)
(* rule compiler of the design.                                            *)
(*                                                                         *)
(* Strings whose length or characters matter (VPC ids, bridge names) are   *)
(* sequences of one-character strings.  The relational store and the      *)
(* switch are external systems: every call to them has a                   *)
(* nondeterministic outcome (success, failure, timeout).  Request          *)
(* handlers run concurrently, one goroutine per request, and interleave   *)
(* at the granularity of their repository / manager calls.                 *)
(***************************************************************************)
EXTENDS Integers, Sequences, FiniteSets, TLC, Bags

VARIABLES
    vpcs,      \* rows of table vpcs
    subnets,   \* rows of table subnets (children of a VPC)
    bridges,   \* switch state: bridge name -> bridge attributes
    reqs,      \* in-flight service requests: slot -> handler frame
    mgr,       \* last direct call to the OVS manager and its result
    faults,    \* number of calls so far that met a failure of store or switch
    allocated, \* address allocator: subnet blocks allocated in the VPC block
    allocRes,  \* address allocator: last AllocateSubnet call and its result
    leases,    \* address allocator: addresses of the subnet that are leased
    attach,    \* port-attach requests: slot -> frame
    lock,      \* holder of the per-subnet lock, if any
    sgRules,   \* rule compiler: the rule list given to Compile
    compiled,  \* rule compiler: the flow entries of the last Compile
    refresh_token, \* table users, column refresh_token: user -> token
    authReqs,  \* in-flight RefreshToken requests: slot -> handler frame
    now,       \* time.Now() in seconds
    migrations, \* rows of table migrations: the filenames recorded
    schema,    \* committed statements of migration files: statement -> count
    runs       \* RunMigrations calls in progress: process -> frame

\* the VPC service, its store and the switch
vpcVars == <<vpcs, subnets, bridges, reqs, mgr, faults>>
\* the address allocator and the port-attach requests that use it
ipamVars == <<allocated, allocRes, leases, attach, lock>>
\* the security rule compiler
sgVars == <<sgRules, compiled>>
\* the auth handler and the users table
authVars == <<refresh_token, authReqs, now>>
\* schema migrations
migVars == <<migrations, schema, runs>>

vars == <<vpcVars, ipamVars, sgVars, authVars, migVars>>

----------------------------------------------------------------------------
(* Bounds of the model                                                     *)

\* largest number of subnet rows
MaxSubnets == 1
\* largest number of repository / manager calls of a run that meet a failure
\* of the database or of a switch command
MaxFaultyCalls == 1
\* largest number of bridge-option commands that fail in one CreateBridge
MaxOptFaults == 1

Reqs == {"r1", "r2"}
Users == {"u1", "u2"}
VPCNames == {"net-a", "net-b"}
NoDesc == "<nil>"
Descriptions == {"d1"}
NoName == "<nil>"
SubnetIDs == 1..MaxSubnets

----------------------------------------------------------------------------
(* Characters and strings                                                  *)

Lower == {"a","b","c","d","e","f","g","h","i","j","k","l","m",
          "n","o","p","q","r","s","t","u","v","w","x","y","z"}
Upper == {"A","B","C","D","E","F","G","H","I","J","K","L","M",
          "N","O","P","Q","R","S","T","U","V","W","X","Y","Z"}
Digit == {"0","1","2","3","4","5","6","7","8","9"}

\* uuid.New().String(): 36 characters, 8-4-4-4-12 hexadecimal groups
MkUUID(a, b) ==
    [i \in 1..36 |-> IF i \in {9, 14, 19, 24} THEN "-"
                     ELSE IF i = 15 THEN "4"
                     ELSE IF i <= 8 THEN a ELSE b]

\* the ids uuid.New() may return; two of them share their first 8 characters
UUIDs == {MkUUID("a", "1"), MkUUID("a", "2"), MkUUID("b", "1")}
NoID == <<>>

----------------------------------------------------------------------------
(* CIDR blocks.  The text "a.b.c.d/len" is the record [oct, len, v6];      *)
(* text that is no CIDR at all has oct = <<>>.                             *)

Pow2(n) == 2 ^ n

CIDR(a, b, c, d, len) == [oct |-> <<a, b, c, d>>, len |-> len, v6 |-> FALSE]
GarbageCIDR == [oct |-> <<>>, len |-> 0, v6 |-> FALSE]
\* "fd00::/16"
V6CIDR == [oct |-> <<>>, len |-> 16, v6 |-> TRUE]

\* net.CIDRMask(ones, 32): the number of leading one bits in byte i
MaskBits(ones, i) ==
    IF ones >= 8 * i THEN 8 ELSE IF ones <= 8 * (i - 1) THEN 0 ELSE ones - 8 * (i - 1)

\* IP.Mask: byte-wise AND with the mask
Mask(ip, ones) == [i \in 1..4 |-> ip[i] - (ip[i] % Pow2(8 - MaskBits(ones, i)))]

NoIP == <<>>
NoNet == [ok |-> FALSE, ip |-> NoIP, ones |-> 0, v6 |-> FALSE]

\* net.ParseCIDR: the network has the host bits of the address masked off
ParseCIDR(c) ==
    IF c.v6
    THEN [ok |-> TRUE, ip |-> NoIP, ones |-> c.len, v6 |-> TRUE]
    ELSE IF Len(c.oct) # 4 \/ (\E i \in 1..4 : c.oct[i] > 255) \/ c.len > 32
    THEN NoNet
    ELSE [ok |-> TRUE, ip |-> Mask(c.oct, c.len), ones |-> c.len, v6 |-> FALSE]

\* (*net.IPNet).Contains for an IPv4 network: compare under the net's mask;
\* an address of the other family is never contained
Contains(n, ip, v6) ==
    /\ ~v6
    /\ Mask(ip, n.ones) = n.ip

privateRanges == {CIDR(10, 0, 0, 0, 8), CIDR(172, 16, 0, 0, 12),
                  CIDR(192, 168, 0, 0, 16)}

\* validateCIDRBlock mutated: the lower edge of the prefix window is not checked
validateCIDRBlock_AnyPrefixBelow28(cidr) ==
    LET ipNet == ParseCIDR(cidr) IN
    IF ~ipNet.ok THEN "INVALID_CIDR"
    ELSE IF ~(\E p \in privateRanges : Contains(ParseCIDR(p), ipNet.ip, ipNet.v6))
    THEN "INVALID_CIDR"
    ELSE IF ipNet.ones > 28 THEN "INVALID_CIDR"
    ELSE "ok"

\* validateCIDRBlock: parse, then one of the private ranges contains the
\* network address, then the prefix length is within 16..28
validateCIDRBlock(cidr) ==
    LET ipNet == ParseCIDR(cidr) IN
    IF ~ipNet.ok THEN "INVALID_CIDR"
    ELSE IF ~(\E p \in privateRanges : Contains(ParseCIDR(p), ipNet.ip, ipNet.v6))
    THEN "INVALID_CIDR"
    ELSE IF ipNet.ones < 16 \/ ipNet.ones > 28 THEN "INVALID_CIDR"
    ELSE "ok"

\* CIDR blocks of the requests of the service model
CIDRBlocks == {CIDR(10, 3, 0, 0, 16), CIDR(8, 8, 0, 0, 16)}

\* CIDR blocks of the validation model: the edges of the three private
\* ranges, the edges of the prefix window, host bits set, malformed text
CIDRInputs ==
    { CIDR(10, 0, 0, 0, 16), CIDR(10, 255, 255, 240, 28), CIDR(9, 255, 0, 0, 16),
      CIDR(11, 0, 0, 0, 16), CIDR(10, 0, 0, 0, 8), CIDR(10, 0, 0, 0, 15),
      CIDR(10, 0, 0, 0, 29), CIDR(10, 1, 2, 3, 16), CIDR(172, 16, 0, 0, 16),
      CIDR(172, 31, 255, 0, 24), CIDR(172, 15, 0, 0, 16), CIDR(172, 32, 0, 0, 16),
      CIDR(172, 16, 0, 0, 12), CIDR(192, 168, 0, 0, 16), CIDR(192, 168, 255, 240, 28),
      CIDR(192, 167, 0, 0, 16), CIDR(192, 169, 0, 0, 16), CIDR(192, 168, 0, 0, 32),
      CIDR(256, 0, 0, 0, 16), CIDR(10, 0, 0, 0, 33), GarbageCIDR, V6CIDR }

----------------------------------------------------------------------------
(* Open vSwitch manager                                                    *)

\* fmt.Sprintf("gcp-vpc-%s", id[:8])
BridgePrefix == <<"g", "c", "p", "-", "v", "p", "c", "-">>
BridgeNameOf(id) == BridgePrefix \o SubSeq(id, 1, 8)

MaxBridgeNameLen == 15

validateBridgeName(name) ==
    IF Len(name) = 0 THEN "bridge name cannot be empty"
    ELSE IF Len(name) > MaxBridgeNameLen THEN "bridge name cannot exceed 15 characters"
    ELSE IF \E i \in 1..Len(name) : name[i] \notin (Lower \cup Upper \cup Digit \cup {"_", "-"})
    THEN "bridge name has invalid characters"
    ELSE "ok"

\* the options CreateBridge sets on a new bridge
bridgeOptions == {"stp_enable", "mcast_snooping", "rstp_enable", "protocols",
                  "fail_mode", "other_config:forward-bpdu"}

\* a bridge right after "ovs-vsctl add-br"
NewBridge == [up |-> FALSE, ip |-> NoIP, opts |-> {}, ports |-> {}, flows |-> {}]

\* getFirstIP: the network address incremented byte by byte from the right,
\* carrying while a byte wraps to 0
getFirstIP(ipNet) ==
    IF ipNet.v6 THEN <<0, 0, 0, 1>>
    ELSE [i \in 1..4 |->
            IF \A j \in (i + 1)..4 : ipNet.ip[j] = 255
            THEN (ipNet.ip[i] + 1) % 256 ELSE ipNet.ip[i]]

\* what happens to one external command run by runCommand: it runs to its
\* end ("ok": it exits with the code the tool gives), the tool cannot do its
\* work ("fail": exit code 1), it cannot be started ("noexec"), or the timer
\* kills it - before ("timeout") or after ("timeout_done") its effect
\* reached the switch
CmdOutcomes == {"ok", "fail", "noexec", "timeout", "timeout_done"}
Applied(o) == o \in {"ok", "timeout_done"}
Failed(o) == o # "ok"
TimedOut(o) == o \in {"timeout", "timeout_done"}

\* the outcomes a command can meet in the current state: a failure only
\* while the run has not used up its failures
Outcomes == IF faults < MaxFaultyCalls THEN CmdOutcomes ELSE {"ok"}

\* error values of cmd.Run(); text is err.Error() as a sequence of words
NilError == [nil |-> TRUE, exit |-> FALSE, code |-> 0, text |-> <<>>]
KilledText == <<"signal:", "killed">>
ExitError(code) ==
    [nil |-> FALSE, exit |-> TRUE, code |-> code,
     text |-> IF code = -1 THEN KilledText ELSE <<"exit", "status", ToString(code)>>]
StartError == [nil |-> FALSE, exit |-> FALSE, code |-> 0,
               text |-> <<"exec:", "executable", "file", "not", "found">>]

\* runCommand: the error of cmd.Run() for a command that meets outcome o and
\* whose tool, left to run, exits with code; a killed process has code -1
runCommand(o, code) ==
    IF o = "ok" THEN (IF code = 0 THEN NilError ELSE ExitError(code))
    ELSE IF o = "fail" THEN ExitError(1)
    ELSE IF o = "noexec" THEN StartError
    ELSE ExitError(-1)

\* strings.Contains on sequences of words
strings_Contains(s, sub) ==
    \E i \in 1..(Len(s) - Len(sub) + 1) : SubSeq(s, i, i + Len(sub) - 1) = sub

\* one entry of the log of commands a manager call has issued
Cmd(c, args, o) == [cmd |-> c, args |-> args, out |-> o]

Without(br, name) == [n \in DOMAIN br \ {name} |-> br[n]]
With(br, name, b) == [n \in DOMAIN br \cup {name} |-> IF n = name THEN b ELSE br[n]]

\* BridgeExists mutated: every failure of the command is taken for absence
BridgeExists_FailureIsAbsence(br, name, o) ==
    LET err == runCommand(o, IF name \in DOMAIN br THEN 0 ELSE 2) IN
    IF err.nil
    THEN [exists |-> TRUE, err |-> "ok", cause |-> <<>>]
    ELSE [exists |-> FALSE, err |-> "ok", cause |-> <<>>]

\* BridgeExists: "ovs-vsctl br-exists" exits 0 (present), 2 (absent);
\* every other way of ending is an error
BridgeExists(br, name, o) ==
    LET err == runCommand(o, IF name \in DOMAIN br THEN 0 ELSE 2) IN
    IF err.nil
    THEN [exists |-> TRUE, err |-> "ok", cause |-> <<>>]
    ELSE IF err.exit /\ err.code = 2
    THEN [exists |-> FALSE, err |-> "ok", cause |-> <<>>]
    ELSE [exists |-> FALSE, err |-> "failed to check bridge existence",
          cause |-> err.text]

\* DeleteBridge mutated: "ovs-vsctl del-br" is run whatever the existence
\* check answered
DeleteBridge_AlwaysDelBr(br, name) ==
    UNION { LET e == BridgeExists(br, name, o)
                log == <<Cmd("br-exists", <<name>>, o)>>
            IN
            IF e.err # "ok"
            THEN { [err |-> e.err, br |-> br, fault |-> TRUE, cmds |-> log,
                    cause |-> e.cause] }
            ELSE { LET err == runCommand(p, IF name \in DOMAIN br THEN 0 ELSE 1) IN
                   [err |-> IF err.nil THEN "ok" ELSE "failed to delete bridge",
                    br |-> IF Applied(p) THEN Without(br, name) ELSE br,
                    fault |-> Failed(p),
                    cmds |-> log \o <<Cmd("del-br", <<name>>, p)>>,
                    cause |-> err.text] : p \in Outcomes } : o \in Outcomes }

\* DeleteBridge: the set of results [err, br, fault, cmds, cause] it can end
\* with.  fault: some command met a failure; cmds: the commands issued;
\* cause: the text of the wrapped error
DeleteBridge(br, name) ==
    UNION { LET e == BridgeExists(br, name, o)
                log == <<Cmd("br-exists", <<name>>, o)>>
            IN
            IF e.err # "ok"
            THEN { [err |-> e.err, br |-> br, fault |-> TRUE, cmds |-> log,
                    cause |-> e.cause] }
            ELSE IF ~e.exists
            THEN { [err |-> "ok", br |-> br, fault |-> Failed(o), cmds |-> log,
                    cause |-> <<>>] }
            ELSE { LET err == runCommand(p, 0) IN
                   [err |-> IF err.nil THEN "ok" ELSE "failed to delete bridge",
                    br |-> IF Applied(p) THEN Without(br, name) ELSE br,
                    fault |-> Failed(p),
                    cmds |-> log \o <<Cmd("del-br", <<name>>, p)>>,
                    cause |-> err.text] : p \in Outcomes } : o \in Outcomes }

\* the order in which the log lists the option commands (Go ranges over the
\* map in an unspecified order, which no result depends on)
bridgeOptionOrder == <<"stp_enable", "mcast_snooping", "rstp_enable", "protocols",
                       "fail_mode", "other_config:forward-bpdu">>

\* the outcomes of the "ip addr add" and of the option commands of one
\* CreateBridge: opt maps the options whose command met a failure to it
OptionRuns ==
    UNION { [addr : Outcomes, opt : [failed -> Outcomes \ {"ok"}]] :
              failed \in {s \in SUBSET bridgeOptions :
                           /\ Cardinality(s) <= MaxOptFaults
                           /\ s # {} => faults < MaxFaultyCalls} }

OptionOutcome(x, k) == IF k \in DOMAIN x.opt THEN x.opt[k] ELSE "ok"

\* CreateBridge: the set of results [err, br, fault, made, cmds, cause] it
\* can end with.  made: the call added the bridge and left it on the switch.
CreateBridge(br, name, cidr) ==
    IF validateBridgeName(name) # "ok"
    THEN { [err |-> "invalid bridge name", br |-> br, fault |-> FALSE,
            made |-> FALSE, cmds |-> <<>>, cause |-> <<validateBridgeName(name)>>] }
    ELSE
      UNION {
        LET e == BridgeExists(br, name, o)
            log == <<Cmd("br-exists", <<name>>, o)>>
        IN
        IF e.err # "ok"
        THEN { [err |-> e.err, br |-> br, fault |-> TRUE, made |-> FALSE,
                cmds |-> log, cause |-> e.cause] }
        ELSE IF e.exists
        THEN { [err |-> "bridge already exists", br |-> br, fault |-> Failed(o),
                made |-> FALSE, cmds |-> log, cause |-> <<>>] }
        ELSE IF ~ParseCIDR(cidr).ok
        THEN { [err |-> "invalid CIDR", br |-> br, fault |-> Failed(o),
                made |-> FALSE, cmds |-> log, cause |-> <<>>] }
        ELSE
          LET added == With(br, name, NewBridge)
              isUp  == With(br, name, [NewBridge EXCEPT !.up = TRUE])
              addBr(p) == <<Cmd("add-br", <<name>>, p)>>
              linkUp(p) == <<Cmd("link-up", <<name>>, p)>>
          IN
          \* "ovs-vsctl add-br" does not exit 0
          { [err |-> "failed to create bridge",
             br |-> IF Applied(p) THEN added ELSE br,
             fault |-> TRUE, made |-> Applied(p),
             cmds |-> log \o addBr(p),
             cause |-> runCommand(p, 0).text] : p \in Outcomes \ {"ok"} }
          \cup
          \* "ip link set dev up" does not exit 0: DeleteBridge, result dropped
          UNION { { [err |-> "failed to bring bridge up", br |-> d.br,
                     fault |-> TRUE, made |-> name \in DOMAIN d.br,
                     cmds |-> log \o addBr("ok") \o linkUp(p) \o d.cmds,
                     cause |-> runCommand(p, 0).text] :
                        d \in DeleteBridge(IF Applied(p) THEN isUp ELSE added, name) } :
                  p \in Outcomes \ {"ok"} }
          \cup
          \* bridge is up; failures of "ip addr add" and of the option
          \* commands are only logged
          { [err |-> "ok",
             br |-> With(br, name,
                      [NewBridge EXCEPT
                         !.up = TRUE,
                         !.ip = IF Applied(x.addr)
                                THEN getFirstIP(ParseCIDR(cidr)) ELSE NoIP,
                         !.opts = {k \in bridgeOptions : Applied(OptionOutcome(x, k))}]),
             fault |-> Failed(x.addr) \/ DOMAIN x.opt # {},
             made |-> TRUE,
             cmds |-> log \o addBr("ok") \o linkUp("ok")
                        \o <<Cmd("addr-add", <<name>>, x.addr)>>
                        \o [i \in 1..Len(bridgeOptionOrder) |->
                              Cmd("set-bridge", <<name, <<bridgeOptionOrder[i]>>>>,
                                  OptionOutcome(x, bridgeOptionOrder[i]))],
             cause |-> <<>>] : x \in OptionRuns }
        : o \in Outcomes }

\* the bridge, if any, that holds a port of this name
BridgesWithPort(br, portName) ==
    {b \in DOMAIN br : \E p \in br[b].ports : p.name = portName}

\* AddPort mutated: the port is added without the existence check, and a
\* command that does not exit 0 is not reported
AddPort_NoExistenceCheck(br, bridgeName, portName, portType) ==
    IF portType = "patch"
    THEN { [err |-> "patch ports require additional configuration", br |-> br,
            fault |-> FALSE, cmds |-> <<>>, cause |-> <<>>] }
    ELSE { [err |-> "ok", br |-> br, fault |-> Failed(p),
            cmds |-> <<Cmd("add-port", <<bridgeName, portName>>, p)>>,
            cause |-> <<>>] : p \in Outcomes }

\* AddPort: the set of results [err, br, fault, cmds, cause] it can end with.
\* "ovs-vsctl add-port" exits 1 when the port name is in use.
AddPort(br, bridgeName, portName, portType) ==
    UNION { LET e == BridgeExists(br, bridgeName, o)
                log == <<Cmd("br-exists", <<bridgeName>>, o)>>
            IN
            IF e.err # "ok"
            THEN { [err |-> e.err, br |-> br, fault |-> TRUE, cmds |-> log,
                    cause |-> e.cause] }
            ELSE IF ~e.exists
            THEN { [err |-> "bridge does not exist", br |-> br, fault |-> Failed(o),
                    cmds |-> log, cause |-> <<>>] }
            ELSE IF portType = "patch"
            THEN { [err |-> "patch ports require additional configuration",
                    br |-> br, fault |-> Failed(o), cmds |-> log, cause |-> <<>>] }
            ELSE { LET code == IF BridgesWithPort(br, portName) # {} THEN 1 ELSE 0
                       err == runCommand(p, code)
                       port == [name |-> portName,
                                type |-> IF portType = "internal"
                                         THEN "internal" ELSE "system"]
                   IN
                   [err |-> IF err.nil THEN "ok" ELSE "failed to add port",
                    br |-> IF Applied(p) /\ code = 0
                           THEN [br EXCEPT ![bridgeName].ports = @ \cup {port}]
                           ELSE br,
                    fault |-> Failed(p),
                    cmds |-> log \o <<Cmd("add-port", <<bridgeName, portName>>, p)>>,
                    cause |-> err.text] : p \in Outcomes } : o \in Outcomes }

\* DeletePort: the set of results [err, br, fault, cmds, cause] it can end
\* with.  "ovs-vsctl del-port" exits 1 and writes "no port named ..." to
\* its standard error when the bridge has no such port; err.Error() is the
\* text of the exit status.
DeletePort(br, bridgeName, portName) ==
    { LET has == bridgeName \in BridgesWithPort(br, portName)
          err == runCommand(p, IF has THEN 0 ELSE 1)
      IN
      [err |-> IF err.nil THEN "ok"
               ELSE IF strings_Contains(err.text, <<"no", "port", "named">>) THEN "ok"
               ELSE "failed to delete port",
       br |-> IF Applied(p) /\ has
              THEN [br EXCEPT ![bridgeName].ports =
                                 {q \in @ : q.name # portName}]
              ELSE br,
       fault |-> Failed(p),
       cmds |-> <<Cmd("del-port", <<bridgeName, portName>>, p)>>,
       cause |-> IF strings_Contains(err.text, <<"no", "port", "named">>)
                 THEN <<>> ELSE err.text] : p \in Outcomes }

\* the reads of GetBridgeInfo whose errors are replaced by an empty value
\* (the reads that getPortDetails makes for each listed port are not listed)
infoReads == <<"get-datapath-id", "get-controller", "list-ports">>

\* GetBridgeInfo: the set of results [err, br, fault, cmds, cause] it can
\* end with; it reads the switch and changes nothing
GetBridgeInfo(br, name) ==
    UNION { LET e == BridgeExists(br, name, o)
                log == <<Cmd("br-exists", <<name>>, o)>>
            IN
            IF e.err # "ok"
            THEN { [err |-> e.err, br |-> br, fault |-> TRUE, cmds |-> log,
                    cause |-> e.cause] }
            ELSE IF ~e.exists
            THEN { [err |-> "bridge does not exist", br |-> br, fault |-> Failed(o),
                    cmds |-> log, cause |-> <<>>] }
            ELSE { [err |-> "failed to get bridge UUID", br |-> br, fault |-> TRUE,
                    cmds |-> log \o <<Cmd("get-uuid", <<name>>, p)>>,
                    cause |-> runCommand(p, 0).text] : p \in Outcomes \ {"ok"} }
                 \cup
                 { [err |-> "ok", br |-> br,
                    fault |-> \E i \in 1..Len(infoReads) : Failed(q[i]),
                    cmds |-> log \o <<Cmd("get-uuid", <<name>>, "ok")>>
                               \o [i \in 1..Len(infoReads) |->
                                     Cmd(infoReads[i], <<name>>, q[i])],
                    cause |-> <<>>] :
                       q \in {y \in [1..Len(infoReads) -> Outcomes] :
                                Cardinality({i \in 1..Len(infoReads) : Failed(y[i])})
                                   <= MaxOptFaults} } : o \in Outcomes }

----------------------------------------------------------------------------
(* Flow rules.  Text is a sequence of one-character strings.               *)

DigitChars == <<"0", "1", "2", "3", "4", "5", "6", "7", "8", "9">>

\* fmt.Sprintf("%d", n) for n >= 0
RECURSIVE Itoa(_)
Itoa(n) == IF n < 10 THEN <<DigitChars[n + 1]>>
           ELSE Itoa(n \div 10) \o <<DigitChars[(n % 10) + 1]>>

Comma == <<",">>
TableKey == <<"t", "a", "b", "l", "e", "=">>
PriorityKey == <<"p", "r", "i", "o", "r", "i", "t", "y", "=">>
ActionsKey == <<"a", "c", "t", "i", "o", "n", "s", "=">>

\* strings.TrimSuffix
TrimSuffix(s, suffix) ==
    IF Len(s) >= Len(suffix) /\ SubSeq(s, Len(s) - Len(suffix) + 1, Len(s)) = suffix
    THEN SubSeq(s, 1, Len(s) - Len(suffix))
    ELSE s

\* buildFlowSpec mutated: the trailing comma is left in place
buildFlowSpec_NoTrim(flow) ==
    LET s1 == IF flow.table > 0 THEN TableKey \o Itoa(flow.table) \o Comma ELSE <<>>
        s2 == IF flow.priority > 0
              THEN s1 \o PriorityKey \o Itoa(flow.priority) \o Comma ELSE s1
        s3 == IF flow.match # <<>> THEN s2 \o flow.match \o Comma ELSE s2
        s4 == IF flow.actions # <<>> THEN s3 \o ActionsKey \o flow.actions ELSE s3
    IN s4

\* buildFlowSpec: each present field appended with a comma, the actions
\* last, then one trailing comma trimmed
buildFlowSpec(flow) ==
    LET s1 == IF flow.table > 0 THEN TableKey \o Itoa(flow.table) \o Comma ELSE <<>>
        s2 == IF flow.priority > 0
              THEN s1 \o PriorityKey \o Itoa(flow.priority) \o Comma ELSE s1
        s3 == IF flow.match # <<>> THEN s2 \o flow.match \o Comma ELSE s2
        s4 == IF flow.actions # <<>> THEN s3 \o ActionsKey \o flow.actions ELSE s3
    IN TrimSuffix(s4, Comma)

\* buildFlowMatchSpec: table, priority and match, one trailing comma trimmed
buildFlowMatchSpec(flow) ==
    LET s1 == IF flow.table > 0 THEN TableKey \o Itoa(flow.table) \o Comma ELSE <<>>
        s2 == IF flow.priority > 0
              THEN s1 \o PriorityKey \o Itoa(flow.priority) \o Comma ELSE s1
        s3 == IF flow.match # <<>> THEN s2 \o flow.match ELSE s2
    IN TrimSuffix(s3, Comma)

HasPrefix(s, prefix) ==
    Len(s) >= Len(prefix) /\ SubSeq(s, 1, Len(prefix)) = prefix

\* AddFlow: the set of results [err, br, fault, cmds, cause] it can end
\* with.  "ovs-ofctl add-flow" exits 1 when there is no such bridge; the
\* switch keeps the rule in the form it was given.
AddFlow(br, bridgeName, flow) ==
    { LET flowSpec == buildFlowSpec(flow)
          code == IF bridgeName \in DOMAIN br THEN 0 ELSE 1
          err == runCommand(p, code)
      IN
      [err |-> IF err.nil THEN "ok" ELSE "failed to add flow",
       br |-> IF Applied(p) /\ code = 0
              THEN [br EXCEPT ![bridgeName].flows = @ \cup {flowSpec}]
              ELSE br,
       fault |-> Failed(p),
       cmds |-> <<Cmd("add-flow", <<bridgeName, flowSpec>>, p)>>,
       cause |-> err.text] : p \in Outcomes }

\* DeleteFlow: the set of results [err, br, fault, cmds, cause] it can end
\* with.  "ovs-ofctl del-flows" removes the rules that the match
\* specification selects: here, the rules whose text begins with it.
DeleteFlow(br, bridgeName, flow) ==
    { LET flowSpec == buildFlowMatchSpec(flow)
          code == IF bridgeName \in DOMAIN br THEN 0 ELSE 1
          err == runCommand(p, code)
      IN
      [err |-> IF err.nil THEN "ok" ELSE "failed to delete flow",
       br |-> IF Applied(p) /\ code = 0
              THEN [br EXCEPT ![bridgeName].flows =
                                 {w \in @ : ~HasPrefix(w, flowSpec)}]
              ELSE br,
       fault |-> Failed(p),
       cmds |-> <<Cmd("del-flows", <<bridgeName, flowSpec>>, p)>>,
       cause |-> err.text] : p \in Outcomes }

\* strings.Index: the byte offset of the first occurrence of sub in s, -1
\* when there is none
strings_Index(s, sub) ==
    LET at == {i \in 1..(Len(s) - Len(sub) + 1) : SubSeq(s, i, i + Len(sub) - 1) = sub}
    IN IF at = {} THEN -1 ELSE (CHOOSE i \in at : \A j \in at : i <= j) - 1

DigitValue(c) == CHOOSE d \in 0..9 : DigitChars[d + 1] = c

\* strconv.Atoi on an unsigned decimal: [ok, n]; anything else is an error
RECURSIVE Atoi(_)
Atoi(str) ==
    IF str = <<>> \/ \E i \in DOMAIN str : str[i] \notin Digit
    THEN [ok |-> FALSE, n |-> 0]
    ELSE IF Len(str) = 1 THEN [ok |-> TRUE, n |-> DigitValue(str[1])]
    ELSE [ok |-> TRUE,
          n |-> Atoi(SubSeq(str, 1, Len(str) - 1)).n * 10 + DigitValue(str[Len(str)])]

\* parseFlowLine: a Flow with the priority and the actions found in the line
parseFlowLine(line) ==
    LET pIdx == strings_Index(line, PriorityKey)
        rest == SubSeq(line, pIdx + Len(PriorityKey) + 1, Len(line))
        comma == strings_Index(rest, Comma)
        priorityStr == IF comma >= 0 THEN SubSeq(rest, 1, comma) ELSE rest
        aIdx == strings_Index(line, ActionsKey)
    IN [table |-> 0,
        priority |-> IF pIdx >= 0 /\ Atoi(priorityStr).ok
                     THEN Atoi(priorityStr).n ELSE 0,
        match |-> <<>>,
        actions |-> IF aIdx >= 0
                    THEN SubSeq(line, aIdx + Len(ActionsKey) + 1, Len(line))
                    ELSE <<>>]

\* parseFlows: the Flow of every line that is not empty and not a header
parseFlows(lines) == {parseFlowLine(l) : l \in {x \in lines : x # <<>>}}

\* ListFlows: the set of results [err, br, fault, cmds, cause, flows] it can
\* end with.  "ovs-ofctl dump-flows" exits 1 when there is no such bridge
\* and prints one line per rule, the rule in the form it was given.
ListFlows(br, bridgeName) ==
    { LET code == IF bridgeName \in DOMAIN br THEN 0 ELSE 1
          err == runCommand(p, code)
      IN
      [err |-> IF err.nil THEN "ok" ELSE "failed to list flows",
       br |-> br,
       fault |-> Failed(p),
       cmds |-> <<Cmd("dump-flows", <<bridgeName>>, p)>>,
       cause |-> err.text,
       flows |-> IF err.nil THEN parseFlows(br[bridgeName].flows) ELSE {}] :
      p \in Outcomes }

----------------------------------------------------------------------------
(* Repository (table vpcs, table subnets)                                  *)

\* GetByID mutated: WHERE id = $1 only
GetByID_AnyUser(id, userID) == {v \in vpcs : v.id = id}

\* GetByID: the rows WHERE id = $1 AND user_id = $2
GetByID(id, userID) == {v \in vpcs : v.id = id /\ v.user = userID}

\* GetByName: the rows WHERE name = $1 AND user_id = $2 (db.Get takes one)
GetByName(name, userID) == {v \in vpcs : v.name = name /\ v.user = userID}

\* Delete: DELETE FROM vpcs WHERE id = $1 AND user_id = $2; the rows of
\* subnets that reference the VPC go with it (ON DELETE CASCADE)
DeleteRows(id, userID) == GetByID(id, userID)

\* CheckCIDRConflict: COUNT(*) WHERE user_id = $1 AND cidr_block = $2
\* [AND id != $3] is positive
CheckCIDRConflict(cidrBlock, userID, excludeID) ==
    Cardinality({v \in vpcs : /\ v.user = userID
                              /\ v.cidr = cidrBlock
                              /\ excludeID # NoID => v.id # excludeID}) > 0
SubnetsOf(id) == {s \in subnets : s.vpc_id = id}

----------------------------------------------------------------------------
(* Request frames                                                          *)

NoReq == [kind |-> "idle", pc |-> "idle", user |-> "", id |-> NoID,
          name |-> NoName, cidr |-> GarbageCIDR, desc |-> NoDesc,
          existing |-> {}, updates |-> {}, err |-> "", ret |-> {},
          faulted |-> FALSE, made |-> FALSE,
          wrapped |-> [message |-> "", err |-> <<>>]]

NoPort == <<>>
NoFlow == [table |-> 0, priority |-> 0, match |-> <<>>, actions |-> <<>>]

\* the last direct call to the manager: its operation and arguments, its
\* error, whether BridgeExists answered "present", the commands it issued,
\* the text of the error it wraps, and whether it repeats (rep = 2) the
\* successful call before it
NoCall == [op |-> "none", name |-> <<>>, port |-> NoPort, flow |-> NoFlow,
           err |-> "ok", exists |-> FALSE, cmds |-> <<>>, cause |-> <<>>,
           rep |-> 0, flows |-> {}]

Call(op, name, res) ==
    [NoCall EXCEPT !.op = op, !.name = name, !.err = res.err,
                   !.cmds = res.cmds, !.cause = res.cause,
                   !.rep = IF mgr.op = op /\ mgr.name = name /\ mgr.err = "ok"
                           THEN 2 ELSE 1]

Done(f, err, ret) == [f EXCEPT !.pc = "done", !.err = err, !.ret = ret]

\* err.Error() of a failed database/sql call, as the driver words it
DriverText == "pq: the database system is shutting down"

\* fmt.Errorf("<msg>: %w", err) of the repository around a driver error:
\* the segments of the text, which ": " joins
RepoError(msg) == <<msg, DriverText>>

\* errors.Wrap(err, ErrorTypeInternal, code, message): the AppError the
\* service returns, kept in the frame; err holds the segments of Err.Error()
Wrap(f, message, errText) ==
    [f EXCEPT !.wrapped = [message |-> message, err |-> errText]]

\* AppError.Error(): Message, then ": " and Err.Error() when Err is set
AppError_Error(e) == IF e.err # <<>> THEN <<e.message>> \o e.err ELSE <<e.message>>

----------------------------------------------------------------------------
(* The components a specification leaves idle                              *)

NoAlloc == [op |-> "none", cidr |-> GarbageCIDR, err |-> ""]
NoAttach == [pc |-> "idle", seen |-> {}, ip |-> NoIP, err |-> ""]
NotCompiled == <<>>
NoToken == [user |-> "", iat |-> -1]
NoAuthReq == [pc |-> "idle", user |-> "", token |-> NoToken, status |-> 0,
              issued |-> NoToken]
\* the files of migrations/*.sql, named by their numeric prefix, and the
\* statements of each, numbered in the order of the file
MigrationFiles == {1, 2}
StatementsOf(file) == 1..2
Statements == {<<f, i>> : f \in MigrationFiles, i \in 1..2}
\* a RunMigrations call: the index of its file in the sorted list, the next
\* statement, the statements executed in its open transaction and whether
\* the filename was inserted in it
NoRun == [pc |-> "idle", file |-> 0, stmt |-> 0, tx |-> {}, recorded |-> FALSE]
Runs == {"m1", "m2"}

IPAMIdle ==
    /\ allocated = {} /\ allocRes = NoAlloc /\ leases = EmptyBag
    /\ attach = [r \in Reqs |-> NoAttach] /\ lock = ""
SGIdle == sgRules = <<>> /\ compiled = NotCompiled
AuthIdle ==
    /\ refresh_token = [u \in Users |-> NoToken]
    /\ authReqs = [r \in Reqs |-> NoAuthReq] /\ now = 0
MigIdle ==
    /\ migrations = {} /\ schema = [x \in Statements |-> 0]
    /\ runs = [m \in Runs |-> NoRun]
VPCIdle ==
    /\ vpcs = {} /\ subnets = {} /\ bridges = <<>>
    /\ reqs = [r \in Reqs |-> NoReq] /\ mgr = NoCall /\ faults = 0

\* what the VPC service and the switch manager leave untouched
otherVars == <<ipamVars, sgVars, authVars, migVars>>
OthersIdle == IPAMIdle /\ SGIdle /\ AuthIdle /\ MigIdle

\* NewOVSManager / NewVPCService / NewVPCRepository: empty tables, no
\* request in flight.  The switch is not touched by construction: bridges
\* with a name derived from a VPC id may be on it already.
Init ==
    /\ vpcs = {}
    /\ subnets = {}
    /\ \E names \in SUBSET {BridgeNameOf(id) : id \in UUIDs} :
          bridges = [n \in names |-> [NewBridge EXCEPT !.up = TRUE]]
    /\ reqs = [r \in Reqs |-> NoReq]
    /\ mgr = NoCall
    /\ faults = 0
    /\ OthersIdle

----------------------------------------------------------------------------
(* Failures of the environment                                             *)

\* this call meets a failure of the database or of a switch command
Fault == faults < MaxFaultyCalls /\ faults' = faults + 1
NoFault == faults' = faults
FaultIf(b) == IF b THEN Fault ELSE NoFault

----------------------------------------------------------------------------
(* vpcService.CreateVPC                                                    *)

\* entry: validateCIDRBlock
CreateVPCStart(r, cidrs, descs) ==
    /\ reqs[r].kind = "idle"
    /\ \E u \in Users, n \in VPCNames, c \in cidrs, d \in descs :
          LET f == [NoReq EXCEPT !.kind = "CreateVPC", !.user = u, !.name = n,
                                 !.cidr = c, !.desc = d]
          IN reqs' = [reqs EXCEPT ![r] =
                        IF validateCIDRBlock(c) # "ok"
                        THEN Done(f, "ErrInvalidCIDR", {})
                        ELSE [f EXCEPT !.pc = "get_by_name"]]
    /\ UNCHANGED <<vpcs, subnets, bridges, mgr, faults, otherVars>>

\* uuid.New(): an id that no row and no VPC model under construction holds
NewUUIDs(ids) ==
    {id \in ids : /\ \A v \in vpcs : v.id # id
                  /\ \A q \in Reqs : reqs[q].kind = "CreateVPC" => reqs[q].id # id}

\* CreateVPCGetByName mutated: the row is written before the name is checked
CreateVPCGetByName_PersistFirst(r, ids) ==
    LET f == reqs[r] IN
    /\ f.kind = "CreateVPC" /\ f.pc = "get_by_name"
    /\ NoFault
    /\ \E id \in NewUUIDs(ids) :
          /\ vpcs' = vpcs \cup {[id |-> id, name |-> f.name, cidr |-> f.cidr,
                                 desc |-> f.desc, user |-> f.user]}
          /\ reqs' = [reqs EXCEPT ![r] =
                        IF GetByName(f.name, f.user) # {}
                        THEN Done(f, "ErrVPCAlreadyExists", {})
                        ELSE [f EXCEPT !.pc = "create_bridge", !.id = id]]
    /\ UNCHANGED <<subnets, bridges, mgr, otherVars>>

\* vpcRepo.GetByName, then the VPC model with a fresh uuid
CreateVPCGetByName(r, ids) ==
    LET f == reqs[r] IN
    /\ f.kind = "CreateVPC" /\ f.pc = "get_by_name"
    /\ \/ /\ Fault
          /\ reqs' = [reqs EXCEPT ![r] =
                        Done([f EXCEPT !.faulted = TRUE], "ErrVPCNotFound", {})]
       \/ /\ NoFault
          /\ GetByName(f.name, f.user) # {}
          /\ reqs' = [reqs EXCEPT ![r] = Done(f, "ErrVPCAlreadyExists", {})]
       \/ /\ NoFault
          /\ GetByName(f.name, f.user) = {}
          /\ \E id \in NewUUIDs(ids) :
                reqs' = [reqs EXCEPT ![r] = [f EXCEPT !.pc = "create", !.id = id]]
    /\ UNCHANGED <<vpcs, subnets, bridges, mgr, otherVars>>

VPCRow(f) == [id |-> f.id, name |-> f.name, cidr |-> f.cidr,
              desc |-> f.desc, user |-> f.user]

\* CreateVPCCreate mutated: the bridge is added before the INSERT and stays
\* when the INSERT fails
CreateVPCCreate_BridgeFirst(r) ==
    LET f == reqs[r] IN
    /\ f.kind = "CreateVPC" /\ f.pc = "create"
    /\ \/ /\ Fault
          /\ reqs' = [reqs EXCEPT ![r] =
                        Done(Wrap([f EXCEPT !.faulted = TRUE, !.made = TRUE],
                                  "Failed to create VPC",
                                  RepoError("failed to create VPC")),
                             "DB_ERROR", {})]
          /\ bridges' = With(bridges, BridgeNameOf(f.id), NewBridge)
          /\ UNCHANGED vpcs
       \/ /\ NoFault
          /\ vpcs' = vpcs \cup {VPCRow(f)}
          /\ reqs' = [reqs EXCEPT ![r] = [f EXCEPT !.pc = "create_bridge"]]
          /\ UNCHANGED bridges
    /\ UNCHANGED <<subnets, mgr, otherVars>>

\* vpcRepo.Create: INSERT of the row
CreateVPCCreate(r) ==
    LET f == reqs[r] IN
    /\ f.kind = "CreateVPC" /\ f.pc = "create"
    /\ \/ /\ Fault
          /\ reqs' = [reqs EXCEPT ![r] =
                        Done(Wrap([f EXCEPT !.faulted = TRUE],
                                  "Failed to create VPC",
                                  RepoError("failed to create VPC")),
                             "DB_ERROR", {})]
          /\ UNCHANGED vpcs
       \/ /\ NoFault
          /\ vpcs' = vpcs \cup {VPCRow(f)}
          /\ reqs' = [reqs EXCEPT ![r] = [f EXCEPT !.pc = "create_bridge"]]
    /\ UNCHANGED <<subnets, bridges, mgr, otherVars>>

\* ovsManager.CreateBridge(bridgeName, vpc.CIDRBlock)
CreateVPCCreateBridge(r) ==
    LET f == reqs[r] IN
    /\ f.kind = "CreateVPC" /\ f.pc = "create_bridge"
    /\ \E res \in CreateBridge(bridges, BridgeNameOf(f.id), f.cidr) :
          /\ FaultIf(res.fault)
          /\ bridges' = res.br
          /\ LET g == [f EXCEPT !.faulted = f.faulted \/ res.fault,
                                !.made = res.made]
             IN reqs' = [reqs EXCEPT ![r] =
                           IF res.err = "ok"
                           THEN Done(g, "ok", {VPCRow(f)})
                           ELSE [Wrap(g, "Failed to create network bridge",
                                      <<res.err>> \o res.cause)
                                   EXCEPT !.pc = "rollback"]]
    /\ UNCHANGED <<vpcs, subnets, mgr, otherVars>>

\* rollback: vpcRepo.Delete, whose error is only logged
CreateVPCRollback(r) ==
    LET f == reqs[r] IN
    /\ f.kind = "CreateVPC" /\ f.pc = "rollback"
    /\ \/ /\ Fault
          /\ reqs' = [reqs EXCEPT ![r] =
                        Done([f EXCEPT !.faulted = TRUE], "OVS_ERROR", {})]
          /\ UNCHANGED <<vpcs, subnets>>
       \/ /\ NoFault
          /\ vpcs' = vpcs \ DeleteRows(f.id, f.user)
          /\ subnets' = IF DeleteRows(f.id, f.user) # {}
                        THEN subnets \ SubnetsOf(f.id) ELSE subnets
          /\ reqs' = [reqs EXCEPT ![r] = Done(f, "OVS_ERROR", {})]
    /\ UNCHANGED <<bridges, mgr, otherVars>>

----------------------------------------------------------------------------
(* vpcService.DeleteVPC                                                    *)

DeleteVPCStart(r, ids) ==
    /\ reqs[r].kind = "idle"
    /\ \E u \in Users, id \in ids :
          reqs' = [reqs EXCEPT ![r] =
                     [NoReq EXCEPT !.kind = "DeleteVPC", !.pc = "get_by_id",
                                   !.user = u, !.id = id]]
    /\ UNCHANGED <<vpcs, subnets, bridges, mgr, faults, otherVars>>

\* vpcRepo.GetByID
DeleteVPCGetByID(r) ==
    LET f == reqs[r] IN
    /\ f.kind = "DeleteVPC" /\ f.pc = "get_by_id"
    /\ \/ /\ Fault
          /\ reqs' = [reqs EXCEPT ![r] =
                        Done(Wrap([f EXCEPT !.faulted = TRUE], "Failed to get VPC",
                                  RepoError("failed to get VPC by ID")),
                             "DB_ERROR", {})]
       \/ /\ NoFault
          /\ GetByID(f.id, f.user) = {}
          /\ reqs' = [reqs EXCEPT ![r] = Done(f, "ErrVPCNotFound", {})]
       \/ /\ NoFault
          /\ GetByID(f.id, f.user) # {}
          /\ reqs' = [reqs EXCEPT ![r] = [f EXCEPT !.pc = "delete_bridge"]]
    /\ UNCHANGED <<vpcs, subnets, bridges, mgr, otherVars>>

\* ovsManager.DeleteBridge(bridgeName), whose error is only logged
DeleteVPCDeleteBridge(r) ==
    LET f == reqs[r] IN
    /\ f.kind = "DeleteVPC" /\ f.pc = "delete_bridge"
    /\ \E res \in DeleteBridge(bridges, BridgeNameOf(f.id)) :
          /\ FaultIf(res.fault)
          /\ bridges' = res.br
          /\ reqs' = [reqs EXCEPT ![r] =
                        [f EXCEPT !.pc = "delete",
                                  !.faulted = f.faulted \/ res.fault]]
    /\ UNCHANGED <<vpcs, subnets, mgr, otherVars>>

\* vpcRepo.Delete: an error also when no row was affected
DeleteVPCDelete(r) ==
    LET f == reqs[r] IN
    /\ f.kind = "DeleteVPC" /\ f.pc = "delete"
    /\ \/ /\ Fault
          /\ reqs' = [reqs EXCEPT ![r] =
                        Done(Wrap([f EXCEPT !.faulted = TRUE], "Failed to delete VPC",
                                  RepoError("failed to delete VPC")),
                             "DB_ERROR", {})]
          /\ UNCHANGED <<vpcs, subnets>>
       \/ /\ NoFault
          /\ DeleteRows(f.id, f.user) = {}
          /\ reqs' = [reqs EXCEPT ![r] =
                        Done(Wrap(f, "Failed to delete VPC",
                                  <<"VPC not found or no permission">>),
                             "DB_ERROR", {})]
          /\ UNCHANGED <<vpcs, subnets>>
       \/ /\ NoFault
          /\ DeleteRows(f.id, f.user) # {}
          /\ vpcs' = vpcs \ DeleteRows(f.id, f.user)
          /\ subnets' = subnets \ SubnetsOf(f.id)
          /\ reqs' = [reqs EXCEPT ![r] = Done(f, "ok", {})]
    /\ UNCHANGED <<bridges, mgr, otherVars>>

----------------------------------------------------------------------------
(* vpcService.GetVPC                                                       *)

GetVPCStart(r, ids) ==
    /\ reqs[r].kind = "idle"
    /\ \E u \in Users, id \in ids :
          reqs' = [reqs EXCEPT ![r] =
                     [NoReq EXCEPT !.kind = "GetVPC", !.pc = "get_by_id",
                                   !.user = u, !.id = id]]
    /\ UNCHANGED <<vpcs, subnets, bridges, mgr, faults, otherVars>>

\* vpcRepo.GetByID
GetVPCGetByID(r) ==
    LET f == reqs[r] IN
    /\ f.kind = "GetVPC" /\ f.pc = "get_by_id"
    /\ \/ /\ Fault
          /\ reqs' = [reqs EXCEPT ![r] =
                        Done(Wrap([f EXCEPT !.faulted = TRUE], "Failed to get VPC",
                                  RepoError("failed to get VPC by ID")),
                             "DB_ERROR", {})]
       \/ /\ NoFault
          /\ GetByID(f.id, f.user) = {}
          /\ reqs' = [reqs EXCEPT ![r] = Done(f, "ErrVPCNotFound", {})]
       \/ /\ NoFault
          /\ GetByID(f.id, f.user) # {}
          /\ reqs' = [reqs EXCEPT ![r] = Done(f, "ok", GetByID(f.id, f.user))]
    /\ UNCHANGED <<vpcs, subnets, bridges, mgr, otherVars>>

----------------------------------------------------------------------------
(* vpcService.UpdateVPC                                                    *)

UpdateVPCStart(r, ids, descs) ==
    /\ reqs[r].kind = "idle"
    /\ \E u \in Users, id \in ids, n \in {NoName} \cup VPCNames, d \in descs :
          reqs' = [reqs EXCEPT ![r] =
                     [NoReq EXCEPT !.kind = "UpdateVPC", !.pc = "get_by_id",
                                   !.user = u, !.id = id, !.name = n, !.desc = d]]
    /\ UNCHANGED <<vpcs, subnets, bridges, mgr, faults, otherVars>>

\* the update map once the name is settled; nothing to update returns
\* existingVPC
UpdateVPCBuild(f, existing, withName) ==
    LET updates == (IF withName THEN {"name"} ELSE {})
                   \cup (IF f.desc # NoDesc THEN {"description"} ELSE {})
    IN IF updates = {}
       THEN Done(f, "ok", existing)
       ELSE [f EXCEPT !.pc = "update", !.updates = updates]

\* vpcRepo.GetByID, then the comparison of req.Name with existingVPC.Name
UpdateVPCGetByID(r) ==
    LET f == reqs[r] IN
    /\ f.kind = "UpdateVPC" /\ f.pc = "get_by_id"
    /\ \/ /\ Fault
          /\ reqs' = [reqs EXCEPT ![r] =
                        Done(Wrap([f EXCEPT !.faulted = TRUE], "Failed to get VPC",
                                  RepoError("failed to get VPC by ID")),
                             "DB_ERROR", {})]
       \/ /\ NoFault
          /\ GetByID(f.id, f.user) = {}
          /\ reqs' = [reqs EXCEPT ![r] = Done(f, "ErrVPCNotFound", {})]
       \/ /\ NoFault
          /\ \E v \in GetByID(f.id, f.user) :
                reqs' = [reqs EXCEPT ![r] =
                           IF f.name # NoName /\ f.name # v.name
                           THEN [f EXCEPT !.pc = "check_name", !.existing = {v}]
                           ELSE UpdateVPCBuild(f, {v}, FALSE)]
    /\ UNCHANGED <<vpcs, subnets, bridges, mgr, otherVars>>

\* vpcRepo.GetByName for the new name
UpdateVPCCheckName(r) ==
    LET f == reqs[r]
        g == [f EXCEPT !.existing = {}]
    IN
    /\ f.kind = "UpdateVPC" /\ f.pc = "check_name"
    /\ \/ /\ Fault
          /\ reqs' = [reqs EXCEPT ![r] =
                        Done(Wrap([g EXCEPT !.faulted = TRUE],
                                  "Failed to check VPC name",
                                  RepoError("failed to get VPC by name")),
                             "DB_ERROR", {})]
       \/ /\ NoFault
          /\ \E c \in GetByName(f.name, f.user) :
                reqs' = [reqs EXCEPT ![r] =
                           IF c.id # f.id
                           THEN Done(g, "ErrVPCAlreadyExists", {})
                           ELSE UpdateVPCBuild(g, f.existing, TRUE)]
       \/ /\ NoFault
          /\ GetByName(f.name, f.user) = {}
          /\ reqs' = [reqs EXCEPT ![r] = UpdateVPCBuild(g, f.existing, TRUE)]
    /\ UNCHANGED <<vpcs, subnets, bridges, mgr, otherVars>>

\* the orders in which "for field, value := range updates" can visit the map
FieldOrders(updates) ==
    {o \in UNION {[1..n -> updates] : n \in {Cardinality(updates)}} :
        \A i, j \in DOMAIN o : i # j => o[i] # o[j]}

\* vpcRepository.Update, the statement: set holds "<field> = $<ph>" of each
\* SET part, idPh and userPh the placeholders of the WHERE clause, args what
\* each bound argument is, in the order of the appends
UpdateStatement(order) ==
    LET n == Len(order)
        argIndex == n + 2    \* after the loop and the increment for updated_at
    IN [set  |-> [i \in 1..(n + 1) |->
                    IF i <= n THEN [field |-> order[i], ph |-> i]
                    ELSE [field |-> "updated_at", ph |-> n + 1]],
        idPh |-> argIndex - 1,
        userPh |-> argIndex,
        args |-> order \o <<"time.Now()">> \o <<"id", "userID">>]

\* the numbered placeholders that occur in a statement
Placeholders(st) ==
    {st.set[i].ph : i \in DOMAIN st.set} \cup {st.idPh, st.userPh}

\* r.db.Exec(query, args...): PostgreSQL takes as many parameters as the
\* highest placeholder and rejects any other number of arguments; an
\* argument reaches the column or comparison its placeholder stands in
ExecError(st) ==
    \/ Len(st.args) # Cardinality(Placeholders(st))
    \/ \E i \in DOMAIN st.set : st.args[st.set[i].ph] #
           (IF st.set[i].field = "updated_at" THEN "time.Now()" ELSE st.set[i].field)
    \/ st.args[st.idPh] # "id"
    \/ st.args[st.userPh] # "userID"

ParamCountText == "pq: got a different number of parameters than the statement requires"

UpdatedRow(v, f) ==
    [v EXCEPT !.name = IF "name" \in f.updates THEN f.name ELSE v.name,
              !.desc = IF "description" \in f.updates THEN f.desc ELSE v.desc]

\* vpcRepo.Update(id, userID, updates) for a non-empty map
UpdateVPCUpdate(r) ==
    LET f == reqs[r] IN
    /\ f.kind = "UpdateVPC" /\ f.pc = "update"
    /\ \/ /\ Fault
          /\ reqs' = [reqs EXCEPT ![r] =
                        Done(Wrap([f EXCEPT !.faulted = TRUE], "Failed to update VPC",
                                  RepoError("failed to update VPC")),
                             "DB_ERROR", {})]
          /\ UNCHANGED vpcs
       \/ /\ NoFault
          /\ \E order \in FieldOrders(f.updates) :
                LET st == UpdateStatement(order) IN
                IF ExecError(st)
                THEN /\ reqs' = [reqs EXCEPT ![r] =
                                   Done(Wrap(f, "Failed to update VPC",
                                             <<"failed to update VPC", ParamCountText>>),
                                        "DB_ERROR", {})]
                     /\ UNCHANGED vpcs
                ELSE IF GetByID(f.id, f.user) = {}
                THEN /\ reqs' = [reqs EXCEPT ![r] =
                                   Done(Wrap(f, "Failed to update VPC",
                                             <<"VPC not found or no permission">>),
                                        "DB_ERROR", {})]
                     /\ UNCHANGED vpcs
                ELSE /\ vpcs' = (vpcs \ GetByID(f.id, f.user))
                                  \cup {UpdatedRow(v, f) : v \in GetByID(f.id, f.user)}
                     /\ reqs' = [reqs EXCEPT ![r] = [f EXCEPT !.pc = "get_updated"]]
    /\ UNCHANGED <<subnets, bridges, mgr, otherVars>>

\* vpcRepo.GetByID of the updated row
UpdateVPCGetUpdated(r) ==
    LET f == reqs[r] IN
    /\ f.kind = "UpdateVPC" /\ f.pc = "get_updated"
    /\ \/ /\ Fault
          /\ reqs' = [reqs EXCEPT ![r] =
                        Done(Wrap([f EXCEPT !.faulted = TRUE],
                                  "Failed to get updated VPC",
                                  RepoError("failed to get VPC by ID")),
                             "DB_ERROR", {})]
       \/ /\ NoFault
          /\ reqs' = [reqs EXCEPT ![r] = Done(f, "ok", GetByID(f.id, f.user))]
    /\ UNCHANGED <<vpcs, subnets, bridges, mgr, otherVars>>

----------------------------------------------------------------------------
(* Subnets and the end of a request                                        *)

\* SubnetHandler.CreateSubnet: a row of subnets references an existing VPC
CreateSubnet ==
    /\ \E sid \in SubnetIDs, v \in vpcs :
          /\ \A s \in subnets : s.id # sid
          /\ subnets' = subnets \cup {[id |-> sid, vpc_id |-> v.id]}
    /\ UNCHANGED <<vpcs, bridges, reqs, mgr, faults, otherVars>>

\* errors.New: the text of the sentinel errors
ErrorString(err) ==
    CASE err = "ErrVPCAlreadyExists" -> "VPC already exists"
      [] err = "ErrInvalidCIDR" -> "invalid CIDR block"
      [] err = "ErrVPCNotFound" -> "VPC not found"
      [] err = "ErrInternalServer" -> "internal server error"

\* err.Error() of the error a finished service call returned
ServiceErrorText(f) ==
    IF f.err \in {"DB_ERROR", "OVS_ERROR"} THEN AppError_Error(f.wrapped)
    ELSE <<ErrorString(f.err)>>

\* response.Error: code is getErrorCode(err), a function of err.Error();
\* message is err.Error(); details is passed through
response_Error(statusCode, err, details) ==
    [status |-> statusCode, success |-> FALSE,
     code |-> <<"ERR", ErrorString(err)>>, message |-> ErrorString(err),
     details |-> details, data |-> {}]

response_Success(statusCode, data) ==
    [status |-> statusCode, success |-> TRUE, code |-> <<>>, message |-> "",
     details |-> <<>>, data |-> data]

\* VPCHandler.CreateVPC / GetVPC / UpdateVPC / DeleteVPC: the response for a
\* finished service call; the default branch passes err.Error() as details
VPCHandlerResponse(f) ==
    IF f.err = "ok"
    THEN response_Success(IF f.kind = "CreateVPC" THEN 201 ELSE 200,
                          IF f.kind = "DeleteVPC" THEN {} ELSE f.ret)
    ELSE IF f.kind = "CreateVPC" /\ f.err = "ErrVPCAlreadyExists"
    THEN response_Error(409, f.err, <<"VPC already exists">>)
    ELSE IF f.kind = "CreateVPC" /\ f.err = "ErrInvalidCIDR"
    THEN response_Error(400, f.err, <<"Invalid CIDR block">>)
    ELSE IF f.kind # "CreateVPC" /\ f.err = "ErrVPCNotFound"
    THEN response_Error(404, f.err, <<"VPC not found">>)
    ELSE response_Error(500, "ErrInternalServer", ServiceErrorText(f))

\* the handler has written its response; the goroutine ends
Return(r) ==
    /\ reqs[r].pc = "done"
    /\ reqs' = [reqs EXCEPT ![r] = NoReq]
    /\ UNCHANGED <<vpcs, subnets, bridges, mgr, faults, otherVars>>

----------------------------------------------------------------------------
(* Specification of the VPC service: concurrent CreateVPC and DeleteVPC    *)
(* requests, and subnets created in the VPCs                               *)

Next ==
    \/ \E r \in Reqs : CreateVPCStart(r, CIDRBlocks, {NoDesc})
    \/ \E r \in Reqs : CreateVPCGetByName(r, UUIDs)
    \/ \E r \in Reqs : CreateVPCCreate(r)
    \/ \E r \in Reqs : CreateVPCCreateBridge(r)
    \/ \E r \in Reqs : CreateVPCRollback(r)
    \/ \E r \in Reqs : DeleteVPCStart(r, UUIDs)
    \/ \E r \in Reqs : DeleteVPCGetByID(r)
    \/ \E r \in Reqs : DeleteVPCDeleteBridge(r)
    \/ \E r \in Reqs : DeleteVPCDelete(r)
    \/ \E r \in Reqs : Return(r)
    \/ CreateSubnet

Spec == Init /\ [][Next]_vars

(* Specification of concurrent creation: the CreateVPC requests of the     *)
(* request slots interleaved with each other, no other handler running     *)

NextCreate ==
    \/ \E r \in Reqs : CreateVPCStart(r, CIDRBlocks, {NoDesc})
    \/ \E r \in Reqs : CreateVPCGetByName(r, UUIDs)
    \/ \E r \in Reqs : CreateVPCCreate(r)
    \/ \E r \in Reqs : CreateVPCCreateBridge(r)
    \/ \E r \in Reqs : CreateVPCRollback(r)
    \/ \E r \in Reqs : Return(r)

SpecCreate == Init /\ [][NextCreate]_vars

----------------------------------------------------------------------------
(* Specification of the handlers that address a VPC by its id: slot r1     *)
(* runs CreateVPC requests, slot r2 runs GetVPC, UpdateVPC and DeleteVPC   *)
(* requests of either user.  UpdateVPCGetUpdated is not a disjunct: no     *)
(* request reaches pc "get_updated", see C30_UpdateStatementWellFormed.    *)

TenantIDs == {MkUUID("a", "1"), MkUUID("b", "1")}

NextTenant ==
    \/ CreateVPCStart("r1", {CIDR(10, 3, 0, 0, 16)}, {NoDesc})
    \/ CreateVPCGetByName("r1", TenantIDs)
    \/ CreateVPCCreate("r1")
    \/ CreateVPCCreateBridge("r1")
    \/ CreateVPCRollback("r1")
    \/ GetVPCStart("r2", TenantIDs)
    \/ GetVPCGetByID("r2")
    \/ UpdateVPCStart("r2", TenantIDs, {NoDesc} \cup Descriptions)
    \/ UpdateVPCGetByID("r2")
    \/ UpdateVPCCheckName("r2")
    \/ UpdateVPCUpdate("r2")
    \/ DeleteVPCStart("r2", TenantIDs)
    \/ DeleteVPCGetByID("r2")
    \/ DeleteVPCDeleteBridge("r2")
    \/ DeleteVPCDelete("r2")
    \/ \E r \in Reqs : Return(r)

SpecTenant == Init /\ [][NextTenant]_vars


----------------------------------------------------------------------------
(* Specification of CIDR validation: one CreateVPC request at a time, its  *)
(* CIDR block drawn from CIDRInputs                                        *)

NextValidate ==
    \/ CreateVPCStart("r1", CIDRInputs, {NoDesc})
    \/ CreateVPCGetByName("r1", UUIDs)
    \/ CreateVPCCreate("r1")
    \/ CreateVPCCreateBridge("r1")
    \/ CreateVPCRollback("r1")
    \/ Return("r1")

SpecValidate == Init /\ [][NextValidate]_vars

----------------------------------------------------------------------------
(* Specification of the OVS manager: its operations called one after the   *)
(* other on an initially empty switch                                      *)

BridgeNames == { <<"b", "r", "0">>, <<>>, <<"b", "r", "!">>,
                 BridgeNameOf(MkUUID("a", "1")) }
BridgeCIDRs == { CIDR(10, 3, 0, 0, 16), GarbageCIDR }
PortNames == { <<"p", "0">>, <<"p", "1">> }
PortTypes == { "internal", "veth", "patch" }

InitOVS ==
    /\ vpcs = {}
    /\ subnets = {}
    /\ bridges = <<>>
    /\ reqs = [r \in Reqs |-> NoReq]
    /\ mgr = NoCall
    /\ faults = 0
    /\ OthersIdle

MgrCreateBridge ==
    /\ \E name \in BridgeNames, cidr \in BridgeCIDRs :
          \E res \in CreateBridge(bridges, name, cidr) :
             /\ FaultIf(res.fault)
             /\ bridges' = res.br
             /\ mgr' = Call("CreateBridge", name, res)
    /\ UNCHANGED <<vpcs, subnets, reqs, otherVars>>

MgrDeleteBridge ==
    /\ \E name \in BridgeNames :
          \E res \in DeleteBridge(bridges, name) :
             /\ FaultIf(res.fault)
             /\ bridges' = res.br
             /\ mgr' = Call("DeleteBridge", name, res)
    /\ UNCHANGED <<vpcs, subnets, reqs, otherVars>>

MgrBridgeExists ==
    /\ \E name \in BridgeNames, o \in Outcomes :
          LET e == BridgeExists(bridges, name, o) IN
          /\ FaultIf(Failed(o))
          /\ mgr' = [Call("BridgeExists", name,
                          [err |-> e.err, cause |-> e.cause,
                           cmds |-> <<Cmd("br-exists", <<name>>, o)>>])
                       EXCEPT !.exists = e.exists]
    /\ UNCHANGED <<vpcs, subnets, bridges, reqs, otherVars>>

MgrAddPort(names, ports) ==
    /\ \E name \in names, port \in ports, type \in PortTypes :
          \E res \in AddPort(bridges, name, port, type) :
             /\ FaultIf(res.fault)
             /\ bridges' = res.br
             /\ mgr' = [Call("AddPort", name, res) EXCEPT !.port = port]
    /\ UNCHANGED <<vpcs, subnets, reqs, otherVars>>

MgrGetBridgeInfo ==
    /\ \E name \in BridgeNames :
          \E res \in GetBridgeInfo(bridges, name) :
             /\ FaultIf(res.fault)
             /\ mgr' = Call("GetBridgeInfo", name, res)
    /\ UNCHANGED <<vpcs, subnets, bridges, reqs, otherVars>>

NextOVS ==
    \/ MgrCreateBridge
    \/ MgrDeleteBridge
    \/ MgrBridgeExists
    \/ MgrAddPort(BridgeNames, {<<"p", "0">>})
    \/ MgrGetBridgeInfo

SpecOVS == InitOVS /\ [][NextOVS]_vars

----------------------------------------------------------------------------
(* Specification of the ports: AddPort, DeletePort and DeleteBridge called *)
(* one after the other on a switch that starts with one bridge             *)

PortBridges == { <<"b", "r", "0">>, <<"b", "r", "1">> }

InitPort ==
    /\ vpcs = {}
    /\ subnets = {}
    /\ bridges = [n \in {<<"b", "r", "0">>} |-> [NewBridge EXCEPT !.up = TRUE]]
    /\ reqs = [r \in Reqs |-> NoReq]
    /\ mgr = NoCall
    /\ faults = 0
    /\ OthersIdle

MgrDeletePort ==
    /\ \E name \in PortBridges, port \in PortNames :
          \E res \in DeletePort(bridges, name, port) :
             /\ FaultIf(res.fault)
             /\ bridges' = res.br
             /\ mgr' = [Call("DeletePort", name, res) EXCEPT !.port = port]
    /\ UNCHANGED <<vpcs, subnets, reqs, otherVars>>

MgrDropBridge ==
    /\ \E name \in PortBridges :
          \E res \in DeleteBridge(bridges, name) :
             /\ FaultIf(res.fault)
             /\ bridges' = res.br
             /\ mgr' = Call("DeleteBridge", name, res)
    /\ UNCHANGED <<vpcs, subnets, reqs, otherVars>>

NextPort ==
    \/ MgrAddPort(PortBridges, PortNames)
    \/ MgrDeletePort
    \/ MgrDropBridge

SpecPort == InitPort /\ [][NextPort]_vars

----------------------------------------------------------------------------
(* Specification of the flow rules: AddFlow and DeleteFlow called one      *)
(* after the other on a switch with one bridge or with none                *)

\* largest number of rules on a bridge
MaxFlows == 1

FlowBridges == { <<"b", "r", "0">> }
FlowTables == {0, 12}
FlowPriorities == {0, 100}
FlowMatches == { <<>>, <<"i", "p", ",", "t", "p", "=", "8">> }
FlowActions == { <<>>, <<"d", "r", "o", "p">> }
Flows == [table : FlowTables, priority : FlowPriorities, match : FlowMatches,
          actions : FlowActions]

InitFlow ==
    /\ vpcs = {}
    /\ subnets = {}
    /\ \E names \in SUBSET FlowBridges :
          bridges = [n \in names |-> [NewBridge EXCEPT !.up = TRUE]]
    /\ reqs = [r \in Reqs |-> NoReq]
    /\ mgr = NoCall
    /\ faults = 0
    /\ OthersIdle

MgrAddFlow ==
    /\ \E name \in FlowBridges, flow \in Flows :
          /\ name \in DOMAIN bridges => Cardinality(bridges[name].flows) < MaxFlows
          /\ \E res \in AddFlow(bridges, name, flow) :
                /\ FaultIf(res.fault)
                /\ bridges' = res.br
                /\ mgr' = [Call("AddFlow", name, res) EXCEPT !.flow = flow]
    /\ UNCHANGED <<vpcs, subnets, reqs, otherVars>>

MgrDeleteFlow ==
    /\ \E name \in FlowBridges, flow \in Flows :
          \E res \in DeleteFlow(bridges, name, flow) :
             /\ FaultIf(res.fault)
             /\ bridges' = res.br
             /\ mgr' = [Call("DeleteFlow", name, res) EXCEPT !.flow = flow]
    /\ UNCHANGED <<vpcs, subnets, reqs, otherVars>>

MgrListFlows ==
    /\ \E name \in FlowBridges :
          \E res \in ListFlows(bridges, name) :
             /\ FaultIf(res.fault)
             /\ mgr' = [Call("ListFlows", name, res) EXCEPT !.flows = res.flows]
    /\ UNCHANGED <<vpcs, subnets, bridges, reqs, otherVars>>

NextFlow ==
    \/ MgrAddFlow
    \/ MgrDeleteFlow
    \/ MgrListFlows

SpecFlow == InitFlow /\ [][NextFlow]_vars


----------------------------------------------------------------------------
(* Address allocator, subnets: AllocateSubnet(vpcCIDR, requestedCIDR)      *)
(* against the sibling subnets already allocated in the VPC block          *)

\* the last address of a network: the host bits all set
Broadcast(n) == [i \in 1..4 |-> n.ip[i] + Pow2(8 - MaskBits(n.ones, i)) - 1]

\* a <= b for addresses, most significant byte first
IPLeq(a, b) ==
    \/ a = b
    \/ \E i \in 1..4 : a[i] < b[i] /\ \A j \in 1..(i - 1) : a[j] = b[j]

\* the intervals [network, broadcast] of two networks intersect
Overlaps(n1, n2) == IPLeq(n1.ip, Broadcast(n2)) /\ IPLeq(n2.ip, Broadcast(n1))

\* AllocateSubnet mutated: the overlap check is left out
AllocateSubnet_NoOverlapCheck(vpcCIDR, siblings, requestedCIDR) ==
    LET parent == ParseCIDR(vpcCIDR)
        req == ParseCIDR(requestedCIDR)
    IN IF ~req.ok \/ req.v6 THEN "ErrInvalidCIDR"
       ELSE IF req.ones < parent.ones \/ Mask(req.ip, parent.ones) # parent.ip
       THEN "ErrOutOfRange"
       ELSE "ok"

\* AllocateSubnet: the requested block must parse, be a subset of the
\* parent block (no shorter prefix, and its address ANDed with the parent
\* mask is the parent network) and intersect no sibling's interval
AllocateSubnet(vpcCIDR, siblings, requestedCIDR) ==
    LET parent == ParseCIDR(vpcCIDR)
        req == ParseCIDR(requestedCIDR)
    IN IF ~req.ok \/ req.v6 THEN "ErrInvalidCIDR"
       ELSE IF req.ones < parent.ones \/ Mask(req.ip, parent.ones) # parent.ip
       THEN "ErrOutOfRange"
       ELSE IF \E sib \in siblings : Overlaps(ParseCIDR(sib), req)
       THEN "ErrOverlap"
       ELSE "ok"

VPCBlock == CIDR(10, 3, 0, 0, 16)

\* requested blocks: the blocks of the scenario, halves and the whole of the
\* VPC block, a block with host bits set, blocks outside the VPC block or
\* wider than it, and text that is no block
SubnetCIDRs ==
    { CIDR(10, 3, 1, 0, 24), CIDR(10, 3, 1, 128, 25), CIDR(10, 3, 2, 0, 24),
      CIDR(10, 3, 1, 0, 25), CIDR(10, 3, 0, 0, 16), CIDR(10, 3, 2, 9, 28),
      CIDR(10, 4, 0, 0, 24), CIDR(10, 3, 0, 0, 8), CIDR(10, 2, 0, 0, 15),
      GarbageCIDR }

\* a subnet is created: the block is recorded when AllocateSubnet accepts it
CreateSubnetBlock ==
    /\ \E c \in SubnetCIDRs :
          LET err == AllocateSubnet(VPCBlock, allocated, c) IN
          /\ allocated' = IF err = "ok" THEN allocated \cup {c} ELSE allocated
          /\ allocRes' = [op |-> "AllocateSubnet", cidr |-> c, err |-> err]
    /\ UNCHANGED <<leases, attach, lock, vpcVars, sgVars, authVars, migVars>>

\* a subnet is deleted: its block is free again
DeleteSubnetBlock ==
    /\ \E c \in allocated :
          /\ allocated' = allocated \ {c}
          /\ allocRes' = [op |-> "Release", cidr |-> c, err |-> "ok"]
    /\ UNCHANGED <<leases, attach, lock, vpcVars, sgVars, authVars, migVars>>

InitSubnet == VPCIdle /\ OthersIdle

NextSubnet ==
    \/ CreateSubnetBlock
    \/ DeleteSubnetBlock

SpecSubnet == InitSubnet /\ [][NextSubnet]_vars

----------------------------------------------------------------------------
(* Address allocator, leases: LeaseAddress(subnetCIDR, existingLeases) and *)
(* ReleaseAddress(subnetCIDR, ip), called by port attach and detach under  *)
(* the lock of the subnet. leases is the bag of the leased addresses, one   *)
(* copy for each port that holds the address                               *)

LeaseSubnet == CIDR(10, 3, 1, 0, 29)

\* the address after ip, with carry into the higher bytes
IPNext(ip) ==
    [i \in 1..4 |-> IF \A j \in (i + 1)..4 : ip[j] = 255
                     THEN (ip[i] + 1) % 256
                     ELSE ip[i]]

\* the first address from ip up to last that is not in skip, NoIP if none
RECURSIVE ScanFree(_, _, _)
ScanFree(ip, last, skip) ==
    IF ip \notin skip THEN ip
    ELSE IF ip = last THEN NoIP
    ELSE ScanFree(IPNext(ip), last, skip)

\* LeaseAddress: scans the subnet in ascending order and skips the network
\* address, the broadcast address, the gateway (the first usable address)
\* and the addresses already leased
LeaseAddress(subnetCIDR, existingLeases) ==
    LET n == ParseCIDR(subnetCIDR)
        reserved == {n.ip, Broadcast(n), getFirstIP(n)}
        found == ScanFree(n.ip, Broadcast(n), reserved \cup existingLeases)
    IN IF found = NoIP
       THEN [ip |-> NoIP, err |-> "ErrExhausted"]
       ELSE [ip |-> found, err |-> "ok"]

\* ReleaseAddress: the lease of one port on ip is given back
ReleaseAddress(subnetCIDR, existingLeases, ip) == existingLeases (-) SetToBag({ip})

\* a port attach request arrives
AttachPortStart(r) ==
    /\ attach[r].pc = "idle"
    /\ attach' = [attach EXCEPT ![r].pc = "lock"]
    /\ UNCHANGED <<allocated, allocRes, leases, lock, vpcVars, sgVars, authVars, migVars>>

\* AttachPortLock mutated: the request does not wait for the lock
AttachPortLock_NoMutex(r) ==
    /\ attach[r].pc = "lock"
    /\ lock' = r
    /\ attach' = [attach EXCEPT ![r].pc = "read"]
    /\ UNCHANGED <<allocated, allocRes, leases, vpcVars, sgVars, authVars, migVars>>

\* the request takes the lock of the subnet
AttachPortLock(r) ==
    /\ attach[r].pc = "lock"
    /\ lock = ""
    /\ lock' = r
    /\ attach' = [attach EXCEPT ![r].pc = "read"]
    /\ UNCHANGED <<allocated, allocRes, leases, vpcVars, sgVars, authVars, migVars>>

\* the request reads the leases of the subnet
AttachPortRead(r) ==
    /\ attach[r].pc = "read"
    /\ attach' = [attach EXCEPT ![r].pc = "lease",
                                ![r].seen = BagToSet(leases)]
    /\ UNCHANGED <<allocated, allocRes, leases, lock, vpcVars, sgVars, authVars, migVars>>

\* the request leases an address from what it read, writes the lease and
\* gives the lock back
AttachPortLease(r) ==
    /\ attach[r].pc = "lease"
    /\ LET res == LeaseAddress(LeaseSubnet, attach[r].seen) IN
       /\ leases' = IF res.err = "ok"
                     THEN leases (+) SetToBag({res.ip})
                     ELSE leases
       /\ attach' = [attach EXCEPT ![r].pc = "done", ![r].ip = res.ip,
                                   ![r].err = res.err]
    /\ lock' = ""
    /\ UNCHANGED <<allocated, allocRes, vpcVars, sgVars, authVars, migVars>>

\* the request is answered
AttachPortReturn(r) ==
    /\ attach[r].pc = "done"
    /\ attach' = [attach EXCEPT ![r] = NoAttach]
    /\ UNCHANGED <<allocated, allocRes, leases, lock, vpcVars, sgVars, authVars, migVars>>

\* a port is detached: its address is released under the lock
DetachPort ==
    /\ lock = ""
    /\ \E ip \in BagToSet(leases) : leases' = ReleaseAddress(LeaseSubnet, leases, ip)
    /\ UNCHANGED <<allocated, allocRes, attach, lock, vpcVars, sgVars, authVars, migVars>>

InitLease == VPCIdle /\ OthersIdle

NextLease ==
    \/ \E r \in Reqs :
          \/ AttachPortStart(r)
          \/ AttachPortLock(r)
          \/ AttachPortRead(r)
          \/ AttachPortLease(r)
          \/ AttachPortReturn(r)
    \/ DetachPort

SpecLease == InitLease /\ [][NextLease]_vars

----------------------------------------------------------------------------
(* Security rule compiler: Compile(rules []SecurityGroupRule) gives the    *)
(* flow entries of one port                                                *)

MaxRules == 2
Directions == {"inbound", "outbound"}
AnyPort == -1
MaxPortNumber == 65535
DefaultDenyPriority == 0
AnySource == CIDR(0, 0, 0, 0, 0)

\* models.SecurityGroupRule: the fields a flow entry is compiled from
SecurityGroupRule(direction, protocol, from, to, source) ==
    [direction |-> direction, protocol |-> protocol, from_port |-> from,
     to_port |-> to, source |-> source]

RulePool ==
    { SecurityGroupRule("inbound", "tcp", 22, 22, AnySource),
      SecurityGroupRule("inbound", "tcp", 22, 22, CIDR(10, 0, 0, 0, 8)),
      SecurityGroupRule("inbound", "all", AnyPort, AnyPort, CIDR(10, 0, 0, 0, 8)),
      SecurityGroupRule("inbound", "udp", 53, 53, AnySource),
      SecurityGroupRule("inbound", "icmp", AnyPort, AnyPort, AnySource),
      SecurityGroupRule("outbound", "tcp", 80, 443, AnySource),
      SecurityGroupRule("outbound", "all", AnyPort, AnyPort, AnySource),
      SecurityGroupRule("outbound", "udp", 53, 53, CIDR(10, 0, 0, 0, 8)) }

\* the rule lists of at most MaxRules rules, repetitions included
RuleLists == UNION {[1..n -> RulePool] : n \in 0..MaxRules}

\* the rules of one direction, in input order
RulesOf(rules, d) == SelectSeq(rules, LAMBDA r : r.direction = d)

\* the match of a rule: protocol "all" and port range "all" are wildcards
FlowMatch(rule) ==
    [protocol |-> IF rule.protocol = "all" THEN "*" ELSE rule.protocol,
     from_port |-> IF rule.from_port = AnyPort THEN 0 ELSE rule.from_port,
     to_port |-> IF rule.from_port = AnyPort THEN MaxPortNumber ELSE rule.to_port,
     cidr |-> rule.source]

FlowEntry(d, priority, match, action) ==
    [direction |-> d, priority |-> priority, match |-> match, action |-> action]

DefaultDeny(d) ==
    FlowEntry(d, DefaultDenyPriority,
              [protocol |-> "*", from_port |-> 0, to_port |-> MaxPortNumber,
               cidr |-> AnySource], "deny")

\* CompileDirection mutated: no default-deny entry is appended
CompileDirection_NoDefaultDeny(rules, d) ==
    LET rs == RulesOf(rules, d) IN
    [k \in 1..Len(rs) |->
        FlowEntry(d, DefaultDenyPriority + Len(rs) - k + 1, FlowMatch(rs[k]), "allow")]

\* the entries of one direction: the rules in input order with strictly
\* decreasing priorities, then the default-deny entry at the lowest priority
CompileDirection(rules, d) ==
    LET rs == RulesOf(rules, d) IN
    [k \in 1..Len(rs) |->
        FlowEntry(d, DefaultDenyPriority + Len(rs) - k + 1, FlowMatch(rs[k]), "allow")]
    \o <<DefaultDeny(d)>>

Compile(rules) == CompileDirection(rules, "inbound") \o CompileDirection(rules, "outbound")

\* the rules of the port are compiled (again after every rule change)
CompileRules ==
    /\ compiled' = Compile(sgRules)
    /\ UNCHANGED <<sgRules, vpcVars, ipamVars, authVars, migVars>>

InitCompile ==
    /\ VPCIdle /\ IPAMIdle /\ AuthIdle /\ MigIdle
    /\ sgRules \in RuleLists
    /\ compiled = NotCompiled

NextCompile == CompileRules

SpecCompile == InitCompile /\ [][NextCompile]_vars

----------------------------------------------------------------------------
(* AuthHandler: Login and RefreshToken.  A token is the signed string of   *)
(* its claims, so two tokens of one user issued in the same second are the *)
(* same string.  The calls to the users table succeed.                     *)

\* last second of the clock
MaxTime == 1

\* JWT.RefreshTokenExpiration, in milliseconds
RefreshTokenExpiration == 604800000

AuthUsers == {"u1"}

\* jwt.NewWithClaims(...).SignedString(secret) for the refresh claims
SignedToken(u, t) == [user |-> u, iat |-> t]

\* the strings a caller may present: tokens the server signs, and one that
\* does not parse
PresentedTokens == {SignedToken(u, t) : u \in AuthUsers, t \in 0..MaxTime} \cup {NoToken}

\* time.Now() advances
Tick ==
    /\ now < MaxTime
    /\ now' = now + 1
    /\ UNCHANGED <<refresh_token, authReqs, vpcVars, ipamVars, sgVars, migVars>>

\* generateTokens: sign the tokens, then StoreRefreshToken(user.ID, token)
generateTokens(u) == SignedToken(u, now)

\* AuthHandler.Login with valid credentials
Login ==
    /\ \E u \in AuthUsers :
          refresh_token' = [refresh_token EXCEPT ![u] = generateTokens(u)]
    /\ UNCHANGED <<authReqs, now, vpcVars, ipamVars, sgVars, migVars>>

AuthDone(f, status) == [f EXCEPT !.pc = "done", !.status = status]

\* RefreshToken, entry: jwt.ParseWithClaims and the expiry check
RefreshTokenStart(r) ==
    /\ authReqs[r].pc = "idle"
    /\ \E t \in PresentedTokens :
          LET f == [NoAuthReq EXCEPT !.token = t, !.user = t.user] IN
          authReqs' = [authReqs EXCEPT ![r] =
                         IF t = NoToken THEN AuthDone(f, 401)
                         ELSE IF t.iat * 1000 + RefreshTokenExpiration < now * 1000
                         THEN AuthDone(f, 401)
                         ELSE [f EXCEPT !.pc = "verify"]]
    /\ UNCHANGED <<refresh_token, now, vpcVars, ipamVars, sgVars, migVars>>

\* VerifyRefreshToken: SELECT refresh_token, compared with the token
VerifyRefreshToken(userID, token) == refresh_token[userID] = token

RefreshTokenVerify(r) ==
    LET f == authReqs[r] IN
    /\ f.pc = "verify"
    /\ authReqs' = [authReqs EXCEPT ![r] =
                      IF VerifyRefreshToken(f.user, f.token)
                      THEN [f EXCEPT !.pc = "get_user"]
                      ELSE AuthDone(f, 401)]
    /\ UNCHANGED <<refresh_token, now, vpcVars, ipamVars, sgVars, migVars>>

\* GetUserByID
RefreshTokenGetUser(r) ==
    LET f == authReqs[r] IN
    /\ f.pc = "get_user"
    /\ authReqs' = [authReqs EXCEPT ![r] = [f EXCEPT !.pc = "invalidate"]]
    /\ UNCHANGED <<refresh_token, now, vpcVars, ipamVars, sgVars, migVars>>

\* InvalidateRefreshToken: UPDATE ... SET refresh_token = NULL WHERE id = $1
\* AND refresh_token = $3; its error (no row affected) is only logged
RefreshTokenInvalidate(r) ==
    LET f == authReqs[r] IN
    /\ f.pc = "invalidate"
    /\ refresh_token' =
          IF refresh_token[f.user] = f.token
          THEN [refresh_token EXCEPT ![f.user] = NoToken]
          ELSE refresh_token
    /\ authReqs' = [authReqs EXCEPT ![r] = [f EXCEPT !.pc = "generate"]]
    /\ UNCHANGED <<now, vpcVars, ipamVars, sgVars, migVars>>

\* generateTokens and the 200 response with the new tokens
RefreshTokenGenerate(r) ==
    LET f == authReqs[r] IN
    /\ f.pc = "generate"
    /\ refresh_token' = [refresh_token EXCEPT ![f.user] = generateTokens(f.user)]
    /\ authReqs' = [authReqs EXCEPT ![r] =
                      [AuthDone(f, 200) EXCEPT !.issued = generateTokens(f.user)]]
    /\ UNCHANGED <<now, vpcVars, ipamVars, sgVars, migVars>>

\* the response is written; the goroutine ends
AuthReturn(r) ==
    /\ authReqs[r].pc = "done"
    /\ authReqs' = [authReqs EXCEPT ![r] = NoAuthReq]
    /\ UNCHANGED <<refresh_token, now, vpcVars, ipamVars, sgVars, migVars>>

InitAuth == VPCIdle /\ OthersIdle

NextAuth ==
    \/ Tick
    \/ Login
    \/ \E r \in Reqs : RefreshTokenStart(r)
    \/ \E r \in Reqs : RefreshTokenVerify(r)
    \/ \E r \in Reqs : RefreshTokenGetUser(r)
    \/ \E r \in Reqs : RefreshTokenInvalidate(r)
    \/ \E r \in Reqs : RefreshTokenGenerate(r)
    \/ \E r \in Reqs : AuthReturn(r)

SpecAuth == InitAuth /\ [][NextAuth]_vars

----------------------------------------------------------------------------
(* Connection.RunMigrations: each file in a transaction of the store.  A   *)
(* transaction sees what is committed; an INSERT of a filename that        *)
(* another open transaction has inserted waits for that transaction, and   *)
(* one of a committed filename violates the UNIQUE constraint.             *)

\* sort.Strings(migrationFiles): position in the ascending list -> file
RECURSIVE SortAscending(_)
SortAscending(S) ==
    IF S = {} THEN <<>>
    ELSE LET least == CHOOSE x \in S : \A y \in S : x <= y
         IN <<least>> \o SortAscending(S \ {least})

migrationFiles == SortAscending(MigrationFiles)

\* the run moves on to the next file of the list, or returns nil
NextFile(f) ==
    IF f.file < Len(migrationFiles)
    THEN [NoRun EXCEPT !.pc = "check", !.file = f.file + 1]
    ELSE [NoRun EXCEPT !.pc = "done"]

\* tx.Rollback() (or a failed call outside a transaction) and the return
\* of the error
RunFailed(f) == [NoRun EXCEPT !.pc = "failed", !.file = f.file]

\* CREATE TABLE IF NOT EXISTS migrations, filepath.Glob, sort.Strings
RunMigrationsStart(m) ==
    /\ runs[m].pc = "idle"
    /\ \/ /\ Fault
          /\ runs' = [runs EXCEPT ![m] = RunFailed(runs[m])]
       \/ /\ NoFault
          /\ runs' = [runs EXCEPT ![m] = NextFile(runs[m])]
    /\ UNCHANGED <<migrations, schema, vpcs, subnets, bridges, reqs, mgr,
                   ipamVars, sgVars, authVars>>

\* SELECT COUNT(*) FROM migrations WHERE filename = $1; then ReadFile and
\* c.DB.Begin()
RunMigrationsCheck(m) ==
    LET f == runs[m] IN
    /\ f.pc = "check"
    /\ \/ /\ Fault
          /\ runs' = [runs EXCEPT ![m] = RunFailed(f)]
       \/ /\ NoFault
          /\ runs' = [runs EXCEPT ![m] =
                        IF migrationFiles[f.file] \in migrations
                        THEN NextFile(f)
                        ELSE [f EXCEPT !.pc = "exec", !.stmt = 1]]
    /\ UNCHANGED <<migrations, schema, vpcs, subnets, bridges, reqs, mgr,
                   ipamVars, sgVars, authVars>>

\* RunMigrationsExec mutated: the statement runs on c.DB, outside the
\* transaction, and is committed at once
RunMigrationsExec_Autocommit(m) ==
    LET f == runs[m]
        file == migrationFiles[f.file]
    IN
    /\ f.pc = "exec"
    /\ \/ /\ Fault
          /\ runs' = [runs EXCEPT ![m] = RunFailed(f)]
          /\ UNCHANGED schema
       \/ /\ NoFault
          /\ schema' = [schema EXCEPT ![<<file, f.stmt>>] = @ + 1]
          /\ runs' = [runs EXCEPT ![m] =
                        IF f.stmt + 1 \in StatementsOf(file)
                        THEN [f EXCEPT !.stmt = f.stmt + 1]
                        ELSE [f EXCEPT !.pc = "record"]]
    /\ UNCHANGED <<migrations, vpcs, subnets, bridges, reqs, mgr,
                   ipamVars, sgVars, authVars>>

\* tx.Exec(statement) for the next statement of the file
RunMigrationsExec(m) ==
    LET f == runs[m]
        file == migrationFiles[f.file]
    IN
    /\ f.pc = "exec"
    /\ \/ /\ Fault
          /\ runs' = [runs EXCEPT ![m] = RunFailed(f)]
       \/ /\ NoFault
          /\ runs' = [runs EXCEPT ![m] =
                        LET g == [f EXCEPT !.tx = @ \cup {<<file, f.stmt>>}] IN
                        IF f.stmt + 1 \in StatementsOf(file)
                        THEN [g EXCEPT !.stmt = f.stmt + 1]
                        ELSE [g EXCEPT !.pc = "record"]]
    /\ UNCHANGED <<migrations, schema, vpcs, subnets, bridges, reqs, mgr,
                   ipamVars, sgVars, authVars>>

\* tx.Exec("INSERT INTO migrations (filename) VALUES ($1)", filename)
RunMigrationsRecord(m) ==
    LET f == runs[m]
        file == migrationFiles[f.file]
    IN
    /\ f.pc = "record"
    /\ \A o \in Runs \ {m} :
          ~(runs[o].recorded /\ migrationFiles[runs[o].file] = file)
    /\ \/ /\ Fault
          /\ runs' = [runs EXCEPT ![m] = RunFailed(f)]
       \/ /\ NoFault
          /\ runs' = [runs EXCEPT ![m] =
                        IF file \in migrations
                        THEN RunFailed(f)
                        ELSE [f EXCEPT !.pc = "commit", !.recorded = TRUE]]
    /\ UNCHANGED <<migrations, schema, vpcs, subnets, bridges, reqs, mgr,
                   ipamVars, sgVars, authVars>>

\* tx.Commit()
RunMigrationsCommit(m) ==
    LET f == runs[m]
        file == migrationFiles[f.file]
    IN
    /\ f.pc = "commit"
    /\ \/ /\ Fault
          /\ runs' = [runs EXCEPT ![m] = RunFailed(f)]
          /\ UNCHANGED <<migrations, schema>>
       \/ /\ NoFault
          /\ schema' = [x \in Statements |->
                          IF x \in f.tx THEN schema[x] + 1 ELSE schema[x]]
          /\ migrations' = migrations \cup {file}
          /\ runs' = [runs EXCEPT ![m] = NextFile(f)]
    /\ UNCHANGED <<vpcs, subnets, bridges, reqs, mgr, ipamVars, sgVars, authVars>>

\* RunMigrations has returned; the process may call it again
RunMigrationsReturn(m) ==
    /\ runs[m].pc \in {"done", "failed"}
    /\ runs' = [runs EXCEPT ![m] = NoRun]
    /\ UNCHANGED <<migrations, schema, vpcVars, ipamVars, sgVars, authVars>>

InitMigrate == VPCIdle /\ OthersIdle

NextMigrate ==
    \/ \E m \in Runs : RunMigrationsStart(m)
    \/ \E m \in Runs : RunMigrationsCheck(m)
    \/ \E m \in Runs : RunMigrationsExec(m)
    \/ \E m \in Runs : RunMigrationsRecord(m)
    \/ \E m \in Runs : RunMigrationsCommit(m)
    \/ \E m \in Runs : RunMigrationsReturn(m)

SpecMigrate == InitMigrate /\ [][NextMigrate]_vars

----------------------------------------------------------------------------
(* Properties                                                              *)

ValidationErrors == {"ErrInvalidCIDR", "ErrVPCAlreadyExists"}

\* C1: a CreateVPC request that passed validation and met no failure of the
\* store or of the switch has returned the new VPC, and its row is
\* persisted and the bridge named from its id is on the switch.
C1_CreateVPCCommits ==
    \A r \in Reqs :
       LET f == reqs[r] IN
       (f.kind = "CreateVPC" /\ f.pc = "done" /\ ~f.faulted
          /\ f.err \notin ValidationErrors)
       => /\ f.err = "ok"
          /\ f.ret = {VPCRow(f)}
          /\ VPCRow(f) \in vpcs
          /\ BridgeNameOf(f.id) \in DOMAIN bridges

\* C2: a CreateVPC request that returned the bridge-creation error has left
\* neither its row in the store nor a bridge of its making on the switch.
C2_FailedCreateRolledBack ==
    \A r \in Reqs :
       LET f == reqs[r] IN
       (f.kind = "CreateVPC" /\ f.pc = "done" /\ f.err = "OVS_ERROR")
       => /\ \A v \in vpcs : v.id # f.id
          /\ ~f.made

\* C3: the bridge name derived from the id of a CreateVPC or DeleteVPC
\* request is non-empty, at most 15 characters long, made of alphanumerics,
\* hyphen and underscore, and passes validateBridgeName.
C3_BridgeNameValid ==
    \A r \in Reqs :
       LET f == reqs[r]
           name == BridgeNameOf(f.id)
       IN (f.kind \in {"CreateVPC", "DeleteVPC"} /\ f.id # NoID)
          => /\ Len(name) >= 1
             /\ Len(name) <= 15
             /\ \A i \in 1..Len(name) :
                   name[i] \in Lower \cup Upper \cup Digit \cup {"_", "-"}
             /\ validateBridgeName(name) = "ok"

\* C4: every step of a CreateVPC request up to and including the name check
\* leaves the store and the switch unchanged; a request with an invalid CIDR
\* block or with a name its user already uses ends there, with an error and
\* no VPC, and no request gets a validation error at a later step.
C4_ValidationFailureTouchesNothing ==
    [][ \A r \in Reqs :
          LET f == reqs[r]
              g == reqs'[r]
          IN (g # f /\ g.kind = "CreateVPC")
             => /\ f.pc \in {"idle", "get_by_name"}
                   => UNCHANGED <<vpcs, subnets, bridges>>
                /\ (f.pc = "idle" /\ validateCIDRBlock(g.cidr) # "ok")
                   => (g.pc = "done" /\ g.err = "ErrInvalidCIDR" /\ g.ret = {})
                /\ (f.pc = "get_by_name" /\ GetByName(f.name, f.user) # {}
                      /\ faults' = faults)
                   => (g.pc = "done" /\ g.err = "ErrVPCAlreadyExists" /\ g.ret = {})
                /\ g.err \in ValidationErrors
                   => f.pc \in {"idle", "get_by_name"} ]_vars

\* a request was rejected because its user already has a VPC of that name
C4_Witness ==
    \E r \in Reqs :
       /\ reqs[r].kind = "CreateVPC" /\ reqs[r].pc = "done"
       /\ reqs[r].err = "ErrVPCAlreadyExists"
       /\ \E v \in vpcs : v.name = reqs[r].name /\ v.user = reqs[r].user

\* a CIDR text is a private block with a prefix of 16 to 28 bits: four
\* octets, and the first two octets, which the prefix covers, are those of
\* 10.0.0.0/8, 172.16.0.0/12 or 192.168.0.0/16
PrivateBlock(c) ==
    /\ ~c.v6
    /\ Len(c.oct) = 4
    /\ \A i \in 1..4 : c.oct[i] \in 0..255
    /\ c.len \in 16..28
    /\ \/ c.oct[1] = 10
       \/ c.oct[1] = 172 /\ c.oct[2] \in 16..31
       \/ c.oct[1] = 192 /\ c.oct[2] = 168

\* C5: CreateVPC rejects a request with ErrInvalidCIDR if and only if its
\* CIDR block is not a private block with a prefix of 16 to 28 bits, and
\* every persisted VPC has such a block.
C5_OnlyPrivateBlocks ==
    /\ \A r \in Reqs :
          reqs[r].kind = "CreateVPC"
          => (reqs[r].err = "ErrInvalidCIDR" <=> ~PrivateBlock(reqs[r].cidr))
    /\ \A v \in vpcs : PrivateBlock(v.cidr)

\* a /28 block with host bits is persisted
C5_Witness ==
    \E v \in vpcs : v.cidr = CIDR(10, 255, 255, 240, 28)

InFlight(f) ==
    \/ f.kind = "CreateVPC" /\ f.pc \in {"create_bridge", "rollback"}
    \/ f.kind = "DeleteVPC" /\ f.pc \in {"delete_bridge", "delete"}

\* C6: no two requests on the same VPC id are at the same time in their
\* switch-mutating or persisting phase.
C6_OneActionPerVPC ==
    \A r1, r2 \in Reqs :
       (r1 # r2 /\ InFlight(reqs[r1]) /\ InFlight(reqs[r2]))
       => reqs[r1].id # reqs[r2].id

\* C7: no two rows of vpcs have the same user and the same name.
C7_NameUniquePerUser ==
    \A v, w \in vpcs : (v.user = w.user /\ v.name = w.name) => v = w

\* C9: the bridge of every persisted VPC is on the switch.
C9_RecordImpliesBridge ==
    \A v \in vpcs : BridgeNameOf(v.id) \in DOMAIN bridges

\* C10: a DeleteVPC request removes the bridge of its VPC only when no
\* subnet row references the VPC.
C10_BridgeOutlivesChildren ==
    [][ \A r \in Reqs :
          LET f == reqs[r] IN
          ( /\ f.kind = "DeleteVPC" /\ f.pc = "delete_bridge"
            /\ reqs'[r].pc = "delete"
            /\ BridgeNameOf(f.id) \in DOMAIN bridges
            /\ BridgeNameOf(f.id) \notin DOMAIN bridges' )
          => SubnetsOf(f.id) = {} ]_vars

\* C8: CreateBridge on the name of an existing bridge, every command
\* working, returns success and leaves the switch as it is.
C8_CreateBridgeIdempotent ==
    [][ ( /\ mgr'.op = "CreateBridge"
          /\ mgr' # mgr
          /\ mgr'.name \in DOMAIN bridges
          /\ faults' = faults )
        => (mgr'.err = "ok" /\ bridges' = bridges) ]_vars

\* C11: the bridge name is an injective function of the VPC id: two
\* persisted VPCs with distinct ids never have the same bridge name.
C11_BridgeNameInjective ==
    \A v, w \in vpcs :
       v.id # w.id => BridgeNameOf(v.id) # BridgeNameOf(w.id)

\* C12: a DeletePort call for a port that the bridge does not hold, whose
\* command meets no failure, returns success and leaves the switch as it was.
C12_DetachAbsentPortSucceeds ==
    [][ ( /\ mgr'.op = "DeletePort"
          /\ mgr'.name \notin BridgesWithPort(bridges, mgr'.port)
          /\ faults' = faults )
        => (mgr'.err = "ok" /\ bridges' = bridges) ]_vars

\* C13: a DeleteBridge call for a name that is on no bridge, whose commands
\* meet no failure, returns success, issues no "del-br" and leaves the switch
\* as it was; a DeleteBridge call that follows a successful DeleteBridge of
\* the same name returns success and leaves the bridge absent.
C13_DeleteBridgeIdempotent ==
    [][ ( /\ mgr'.op = "DeleteBridge"
          /\ faults' = faults )
        => /\ mgr'.name \notin DOMAIN bridges
              => /\ mgr'.err = "ok"
                 /\ bridges' = bridges
                 /\ \A i \in 1..Len(mgr'.cmds) : mgr'.cmds[i].cmd # "del-br"
           /\ mgr'.rep = 2
              => /\ mgr'.err = "ok"
                 /\ mgr'.name \notin DOMAIN bridges' ]_vars

\* C13 witness: a second DeleteBridge of a valid name right after a
\* successful one has returned success with only the existence check issued
C13_Witness ==
    /\ mgr.op = "DeleteBridge" /\ mgr.rep = 2 /\ mgr.err = "ok"
    /\ mgr.name = <<"b", "r", "0">>
    /\ Len(mgr.cmds) = 1
    /\ mgr.name \notin DOMAIN bridges

\* C14: an AddPort call for a bridge that is not on the switch returns an
\* error and attaches nothing.
C14_AttachNeedsBridge ==
    [][ ( /\ mgr'.op = "AddPort"
          /\ mgr'.name \notin DOMAIN bridges )
        => (mgr'.err # "ok" /\ bridges' = bridges) ]_vars

\* C14 witness: AddPort on a bridge that was on the switch at the start and
\* has been deleted has returned "bridge does not exist"
C14_Witness ==
    /\ mgr.op = "AddPort" /\ mgr.err = "bridge does not exist"
    /\ mgr.name = <<"b", "r", "0">>
    /\ mgr.name \notin DOMAIN bridges

\* C15: BridgeExists answers "present" exactly when the command ran to its
\* end on a switch holding the bridge, "absent" exactly when it ran to its
\* end on a switch not holding it, and an error otherwise; a CreateBridge,
\* DeleteBridge, AddPort or GetBridgeInfo call whose existence check met a
\* failure returns that error, issues no further command and leaves the
\* switch as it was.
C15_ExistenceCheckTotal ==
    [][ /\ mgr'.op = "BridgeExists"
           => LET ran == mgr'.cmds[1].out = "ok"
                  held == mgr'.name \in DOMAIN bridges
              IN /\ (mgr'.err = "ok" /\ mgr'.exists) <=> (ran /\ held)
                 /\ (mgr'.err = "ok" /\ ~mgr'.exists) <=> (ran /\ ~held)
                 /\ mgr'.err # "ok" <=> ~ran
        /\ ( /\ mgr'.op \in {"CreateBridge", "DeleteBridge", "AddPort", "GetBridgeInfo"}
             /\ Len(mgr'.cmds) >= 1
             /\ mgr'.cmds[1].cmd = "br-exists"
             /\ mgr'.cmds[1].out # "ok" )
           => /\ mgr'.err = "failed to check bridge existence"
              /\ Len(mgr'.cmds) = 1
              /\ bridges' = bridges ]_vars

\* C15 witness: a DeleteBridge of a bridge that is on the switch, whose
\* existence check timed out, has returned the check's error
C15_Witness ==
    /\ mgr.op = "DeleteBridge"
    /\ mgr.name \in DOMAIN bridges
    /\ mgr.cmds[1].out = "timeout"
    /\ mgr.err = "failed to check bridge existence"

\* C16: a manager call one of whose commands was killed by the timer returns
\* an error, the error is that of the killed process, and the command is not
\* issued again by the call.
C16_TimeoutReported ==
    \A i \in 1..Len(mgr.cmds) :
       TimedOut(mgr.cmds[i].out)
          => /\ mgr.err # "ok"
             /\ mgr.cause = KilledText
             /\ \A j \in (i + 1)..Len(mgr.cmds) :
                   <<mgr.cmds[j].cmd, mgr.cmds[j].args>>
                      # <<mgr.cmds[i].cmd, mgr.cmds[i].args>>

\* the options of the hardening profile: spanning tree off, fail mode
\* secure, no forwarding of BPDUs
HardeningProfile == {"stp_enable", "rstp_enable", "fail_mode",
                     "other_config:forward-bpdu"}

\* C17: after a CreateBridge call that returned success the bridge is on the
\* switch, its device is up and every option of the hardening profile is set.
C17_SuccessMeansHardened ==
    (mgr.op = "CreateBridge" /\ mgr.err = "ok")
       => /\ mgr.name \in DOMAIN bridges
          /\ bridges[mgr.name].up
          /\ HardeningProfile \subseteq bridges[mgr.name].opts

\* C18: no user has two persisted VPCs with the same CIDR block.
C18_CIDRUniquePerUser ==
    \A v \in vpcs : ~CheckCIDRConflict(v.cidr, v.user, v.id)

\* C19: a CreateVPC request whose INSERT of the VPC row fails ends with an
\* error and without a VPC, and neither that step nor any earlier step of the
\* request has put a bridge on the switch or a row in the store.
C19_PersistFailureLeavesNoBridge ==
    [][ \A r \in Reqs :
          LET f == reqs[r]
              g == reqs'[r]
          IN ( /\ f.kind = "CreateVPC" /\ f.pc = "create"
               /\ g # f /\ faults' # faults )
             => /\ g.pc = "done" /\ g.err = "DB_ERROR" /\ g.ret = {}
                /\ ~g.made
                /\ bridges' = bridges
                /\ vpcs' = vpcs ]_vars

\* C19 witness: a CreateVPC request that had drawn its id has ended with the
\* error of a failed INSERT, and no row with that id is in the store
C19_Witness ==
    \E r \in Reqs :
       /\ reqs[r].kind = "CreateVPC" /\ reqs[r].pc = "done"
       /\ reqs[r].err = "DB_ERROR" /\ reqs[r].faulted
       /\ reqs[r].id # NoID
       /\ \A v \in vpcs : v.id # reqs[r].id

\* the fields of a flow that are present, each in its wire form, in the
\* order table, priority, match, actions
FlowFields(flow, withActions) ==
    (IF flow.table > 0 THEN << TableKey \o Itoa(flow.table) >> ELSE <<>>)
    \o (IF flow.priority > 0 THEN << PriorityKey \o Itoa(flow.priority) >> ELSE <<>>)
    \o (IF flow.match # <<>> THEN << flow.match >> ELSE <<>>)
    \o (IF withActions /\ flow.actions # <<>>
        THEN << ActionsKey \o flow.actions >> ELSE <<>>)

RECURSIVE JoinComma(_)
JoinComma(fields) ==
    IF Len(fields) = 0 THEN <<>>
    ELSE IF Len(fields) = 1 THEN fields[1]
    ELSE fields[1] \o Comma \o JoinComma(Tail(fields))

\* C20: the text AddFlow passes to "ovs-ofctl add-flow" is the present
\* fields of the flow in the order table, priority, match, actions, joined
\* by commas; the text DeleteFlow passes to "ovs-ofctl del-flows" is the same
\* without the actions, and is a prefix of the former.
C20_WireCommand ==
    /\ mgr.op = "AddFlow"
          => mgr.cmds[1].args[2] = JoinComma(FlowFields(mgr.flow, TRUE))
    /\ mgr.op = "DeleteFlow"
          => /\ mgr.cmds[1].args[2] = JoinComma(FlowFields(mgr.flow, FALSE))
             /\ HasPrefix(buildFlowSpec(mgr.flow), mgr.cmds[1].args[2])

\* C20 witness: AddFlow of a flow with table and match and without actions
\* (the text built ends with a comma before the trim) has succeeded
C20_Witness ==
    /\ mgr.op = "AddFlow" /\ mgr.err = "ok"
    /\ mgr.flow.table > 0 /\ mgr.flow.priority = 0
    /\ mgr.flow.match # <<>> /\ mgr.flow.actions = <<>>
    /\ mgr.name \in DOMAIN bridges
    /\ mgr.cmds[1].args[2] \in bridges[mgr.name].flows

----------------------------------------------------------------------------
(* Failure responses                                                       *)

\* the texts that only a database call or a switch command produces
InternalTexts ==
    {DriverText} \cup {StartError.text[i] : i \in DOMAIN StartError.text}
      \cup {KilledText[i] : i \in DOMAIN KilledText}
      \cup {"exit", "status"}

\* C21: no failure response of a VPC operation carries the error text of a
\* database call or of a switch command in its code, message or details.
C21_NoInternalErrorText ==
    \A r \in Reqs :
       reqs[r].pc = "done" /\ reqs[r].err # "ok" =>
          LET resp == VPCHandlerResponse(reqs[r]) IN
          /\ resp.message \notin InternalTexts
          /\ \A i \in DOMAIN resp.details : resp.details[i] \notin InternalTexts
          /\ \A i \in DOMAIN resp.code : resp.code[i] \notin InternalTexts

----------------------------------------------------------------------------
(* DeleteVPC and the bridge                                                *)

\* C25: the step with which DeleteVPC returns success leaves neither the
\* record of the VPC nor its bridge.
C25_DeleteRemovesRecordAndBridge ==
    [][\A r \in Reqs :
          /\ reqs[r].kind = "DeleteVPC" /\ reqs[r].pc = "delete"
          /\ reqs'[r].pc = "done" /\ reqs'[r].err = "ok"
          => /\ \A v \in vpcs' : v.id # reqs[r].id
             /\ BridgeNameOf(reqs[r].id) \notin DOMAIN bridges']_vars

----------------------------------------------------------------------------
(* Requests that address a VPC by id                                       *)

\* the request is about to look up a VPC that exists and belongs to
\* another user
NotOwner(f) ==
    /\ f.kind \in {"GetVPC", "UpdateVPC", "DeleteVPC"} /\ f.pc = "get_by_id"
    /\ \E v \in vpcs : v.id = f.id
    /\ \A v \in vpcs : v.id = f.id => v.user # f.user

\* C29: a GetVPC, UpdateVPC or DeleteVPC of a user who does not own the VPC
\* ends at the lookup: it returns no data and never success, returns
\* ErrVPCNotFound unless the lookup itself failed, and leaves the records
\* and the bridges as they were.
C29_TenantIsolation ==
    [][\A r \in Reqs :
          NotOwner(reqs[r]) /\ reqs'[r] # reqs[r]
          => /\ reqs'[r].pc = "done"
             /\ reqs'[r].err # "ok"
             /\ reqs'[r].ret = {}
             /\ VPCHandlerResponse(reqs'[r]).data = {}
             /\ ~reqs'[r].faulted => reqs'[r].err = "ErrVPCNotFound"
             /\ vpcs' = vpcs /\ bridges' = bridges]_vars

\* C29 witness: a DeleteVPC of a user was answered ErrVPCNotFound while the
\* VPC of that id, owned by the other user, and its bridge are in place.
C29_Witness ==
    \E r \in Reqs :
       /\ reqs[r].kind = "DeleteVPC" /\ reqs[r].pc = "done"
       /\ reqs[r].err = "ErrVPCNotFound"
       /\ \E v \in vpcs : v.id = reqs[r].id /\ v.user # reqs[r].user
       /\ BridgeNameOf(reqs[r].id) \in DOMAIN bridges

\* C30: the statement vpcRepository.Update builds for the update map of a
\* request has as many numbered placeholders as bound arguments, its id
\* placeholder is bound to the id and its user_id placeholder to the userID.
C30_UpdateStatementWellFormed ==
    \A r \in Reqs :
       reqs[r].kind = "UpdateVPC" /\ reqs[r].pc = "update" =>
          \A order \in FieldOrders(reqs[r].updates) :
             LET st == UpdateStatement(order) IN
             /\ Cardinality(Placeholders(st)) = Len(st.args)
             /\ st.args[st.idPh] = "id"
             /\ st.args[st.userPh] = "userID"

----------------------------------------------------------------------------
(* Listing the flows                                                       *)

\* C26: a ListFlows that follows a successful AddFlow of a flow with
\* actions on the same bridge returns an entry with the table, priority,
\* match and actions of the flow that was added.
C26_FlowRoundTrip ==
    [][/\ mgr.op = "AddFlow" /\ mgr.err = "ok" /\ mgr.flow.actions # <<>>
       /\ mgr'.op = "ListFlows" /\ mgr'.err = "ok" /\ mgr'.name = mgr.name
       => \E g \in mgr'.flows :
             /\ g.table = mgr.flow.table
             /\ g.priority = mgr.flow.priority
             /\ g.match = mgr.flow.match
             /\ g.actions = mgr.flow.actions]_vars

----------------------------------------------------------------------------
(* Refresh tokens                                                          *)

\* C27: no two RefreshToken requests that presented the same token are both
\* answered with new tokens.
C27_TokenRedeemedOnce ==
    \A r1, r2 \in Reqs :
       /\ r1 # r2
       /\ authReqs[r1].pc = "done" /\ authReqs[r1].status = 200
       /\ authReqs[r2].pc = "done" /\ authReqs[r2].status = 200
       => authReqs[r1].token # authReqs[r2].token

----------------------------------------------------------------------------
(* Migrations                                                              *)

\* a filename is recorded exactly when every statement of its file is
\* committed once, and no statement of an unrecorded file is committed
MigrationsAtomic ==
    \A file \in MigrationFiles :
       \A i \in StatementsOf(file) :
          schema[<<file, i>>] = (IF file \in migrations THEN 1 ELSE 0)

\* a recorded file has every file of a lower name recorded before it
MigrationsInOrder ==
    \A file \in migrations : \A g \in MigrationFiles : g < file => g \in migrations

\* the step with which a run fails commits nothing, and a failed run
\* applies no further file
FailureStopsRun ==
    \A m \in Runs :
       /\ runs'[m].pc = "failed" /\ runs[m].pc # "failed"
          => schema' = schema /\ migrations' = migrations
       /\ runs[m].pc = "failed" /\ runs'[m] # runs[m] => runs'[m] = NoRun

\* C28: migrations are applied atomically, at most once and in ascending
\* order of filename by any number of sequential or concurrent runs, and a
\* failing file stops its run with nothing of it or of a later file applied.
C28_MigrationsAtomicOnce ==
    /\ [](MigrationsAtomic /\ MigrationsInOrder)
    /\ [][FailureStopsRun]_vars

\* C28 witness: every file is recorded while a second run, which executed
\* the statements of a file concurrently, has failed on it.
C28_Witness ==
    /\ migrations = MigrationFiles
    /\ \E m \in Runs : runs[m].pc = "failed" /\ faults = 0

----------------------------------------------------------------------------
(* Subnet allocation                                                       *)

\* block c, as text, lies inside the VPC block: every address from its
\* network address to its broadcast address does
InsideVPC(c) ==
    LET n == ParseCIDR(c)
        v == ParseCIDR(VPCBlock)
    IN n.ok /\ ~n.v6 /\ IPLeq(v.ip, n.ip) /\ IPLeq(Broadcast(n), Broadcast(v))

\* two blocks share an address: one holds the network address of the other
ShareAddress(c1, c2) ==
    LET n1 == ParseCIDR(c1)
        n2 == ParseCIDR(c2)
    IN Contains(n1, n2.ip, n2.v6) \/ Contains(n2, n1.ip, n1.v6)

\* C22: the allocated sibling blocks lie inside the VPC block and are
\* pairwise disjoint, and an AllocateSubnet call accepts the requested block
\* exactly when it lies inside the VPC block and shares no address with a
\* sibling allocated before the call.
C22_SubnetsContainedAndDisjoint ==
    /\ [](/\ \A c \in allocated : InsideVPC(c)
          /\ \A c1, c2 \in allocated : c1 # c2 => ~ShareAddress(c1, c2))
    /\ [][allocRes'.op = "AllocateSubnet" /\ <<allocated, allocRes>>' # <<allocated, allocRes>>
          => LET c == allocRes'.cidr IN
             /\ (allocRes'.err = "ok") <=>
                   (InsideVPC(c) /\ \A sib \in allocated : ~ShareAddress(sib, c))
             /\ allocRes'.err = "ok" => allocated' = allocated \cup {c}
             /\ allocRes'.err # "ok" => allocated' = allocated]_vars

\* C22 witness: with 10.3.1.0/24 and 10.3.2.0/24 allocated in 10.3.0.0/16,
\* the request for 10.3.1.128/25 was rejected as overlapping.
C22_Witness ==
    /\ allocated = {CIDR(10, 3, 1, 0, 24), CIDR(10, 3, 2, 0, 24)}
    /\ allocRes = [op |-> "AllocateSubnet", cidr |-> CIDR(10, 3, 1, 128, 25),
                   err |-> "ErrOverlap"]

----------------------------------------------------------------------------
(* Address leases                                                          *)

\* the address as a number (the blocks of the model are in 10.0.0.0/8)
IPToInt(ip) == ((ip[1] * 256 + ip[2]) * 256 + ip[3]) * 256 + ip[4]

\* the number of addresses of the leased subnet
SubnetSize == Pow2(32 - LeaseSubnet.len)

\* the usable addresses of the leased subnet: all but the network address,
\* the gateway after it and the broadcast address
UsableAddresses ==
    LET base == IPToInt(LeaseSubnet.oct) IN
    { ip \in {[LeaseSubnet.oct EXCEPT ![4] = d] : d \in 0..255} :
        /\ IPToInt(ip) >= base + 2
        /\ IPToInt(ip) <= base + SubnetSize - 2 }

\* the addresses of the leased subnet that no port holds
FreeAddresses == UsableAddresses \ BagToSet(leases)

\* C23: no address is leased to two ports and no reserved address is
\* leased; a lease step succeeds exactly when fewer than N addresses are
\* leased, N being the number of usable addresses, and then leases the
\* lowest address that no port holds (a released address included), and
\* otherwise reports exhaustion and leases nothing.
C23_LowestFreeLeasedOnce ==
    /\ [](\A ip \in BagToSet(leases) :
             CopiesIn(ip, leases) = 1 /\ ip \in UsableAddresses)
    /\ [][\A r \in Reqs :
            attach[r].pc = "lease" /\ attach'[r].pc = "done" =>
              /\ (attach'[r].err = "ok") <=> (BagCardinality(leases) < Cardinality(UsableAddresses))
              /\ (attach'[r].err # "ok") <=> (attach'[r].err = "ErrExhausted")
              /\ attach'[r].err = "ok" =>
                    /\ attach'[r].ip \in FreeAddresses
                    /\ \A ip \in FreeAddresses : IPToInt(attach'[r].ip) <= IPToInt(ip)
                    /\ leases' = leases (+) SetToBag({attach'[r].ip})
              /\ attach'[r].err # "ok" => leases' = leases]_vars

\* C23 witness: all usable addresses are leased, a request was refused for
\* exhaustion and another request waits for the lock.
C23_Witness ==
    /\ BagCardinality(leases) = Cardinality(UsableAddresses)
    /\ \E r, q \in Reqs :
          /\ attach[r].pc = "done" /\ attach[r].err = "ErrExhausted"
          /\ attach[q].pc = "lock"

----------------------------------------------------------------------------
(* Compiled security rules                                                 *)

\* packets at the port: direction, protocol, port number, peer address
Packets ==
    [direction : Directions, protocol : {"tcp", "udp", "icmp"},
     port : {22, 53, 80}, addr : {<<10, 1, 1, 1>>, <<8, 8, 8, 8>>}]

\* the rule allows the packet
RuleAllows(rule, p) ==
    /\ rule.direction = p.direction
    /\ rule.protocol \in {"all", p.protocol}
    /\ rule.from_port = AnyPort \/ (rule.from_port <= p.port /\ p.port <= rule.to_port)
    /\ Contains(ParseCIDR(rule.source), p.addr, FALSE)

\* the flow entry matches the packet
EntryMatches(e, p) ==
    /\ e.direction = p.direction
    /\ e.match.protocol \in {"*", p.protocol}
    /\ e.match.from_port <= p.port /\ p.port <= e.match.to_port
    /\ Contains(ParseCIDR(e.match.cidr), p.addr, FALSE)

\* what the entries do with the packet: the action of the matching entry of
\* the highest priority, and "pass" when no entry matches
Verdict(entries, p) ==
    LET hits == {i \in 1..Len(entries) : EntryMatches(entries[i], p)} IN
    IF hits = {} THEN "pass"
    ELSE LET best == CHOOSE i \in hits :
                        \A j \in hits : entries[j].priority <= entries[i].priority
         IN entries[best].action

\* the compiled entries of one direction, in output order
EntriesOf(d) == SelectSeq(compiled, LAMBDA e : e.direction = d)

====
